---- MODULE Spec2Model ----
(***************************************************************************)
(* A state-machine model of accelerate's Megatron-LM adapter               *)
(* (src/accelerate/utils/megatron_lm.py).                                  *)
(*                                                                         *)
(* The adapter is glue around an external engine, so the model is a set of *)
(* small machines, one per component, each with its own specification:    *)
(*   SpecModelProvider  model_provider_func                                *)
(*   SpecMask           T5TrainStep.attn_mask_postprocess                  *)
(*   SpecData           prepare_data_loader, _handle_megatron_data_iterator*)
(*   SpecGenerate       MegatronEngine.megatron_generate                   *)
(*   SpecEngine         MegatronEngine train/eval/forward/checkpointing    *)
(* A specification starts the other components' variables at an idle       *)
(* value and never changes them.                                           *)
(*                                                                         *)
(* Python's None is the string "None".  Real-valued arguments are held in  *)
(* tenths (Tenths == 10 units per 1.0), so 0.5 is 5 and 100.0 is 1000.     *)
(***************************************************************************)
EXTENDS Integers, Sequences, FiniteSets, TLC

None == "None"

(***************************************************************************)
(* Bounds of the model.                                                    *)
(***************************************************************************)
\* largest batch dimension B of an attention mask
MaxBatch == 2
\* largest sequence dimension S of an attention mask
MaxSeq == 3
\* largest configured args.micro_batch_size
MaxMicroBatchSize == 2
\* largest args.num_micro_batches
MaxNumMicroBatches == 3
\* largest batch size the caller's DataLoader was built with
MaxLoaderBatchSize == 2
\* largest data-parallel world size
MaxDataParallel == 2
\* most next() calls made on one iterator
MaxNextCalls == 3
\* most items a native iterator holds
MaxItems == 1
\* number of ranks (processes)
NumRanks == 2
\* most prompts in one megatron_generate call (inputs.shape[0])
MaxPrompts == 2
\* longest prompt of a megatron_generate call (inputs.shape[1])
MaxPromptLen == 2
\* most engine calls a rank may be behind the script
MaxLag == 1
\* most forward calls of one run
MaxForwards == 2
\* most calls of each wrapper method
MaxWrapperCalls == 3
\* most save_checkpoint/load_checkpoint calls of one run
MaxCheckpoints == 2
\* largest number of microbatches of one step
MaxMicroBatches == 2
\* largest loss value the engine reports
MaxLoss == 2

VARIABLES
    \* ---- model_provider_func ----
    model_type_name,      \* args.model_type_name
    pretraining_flag,     \* args.pretraining_flag
    num_labels,           \* args.num_labels
    bert_binary_head,     \* args.bert_binary_head
    provider_args,        \* [pre_process, post_process, add_encoder, add_decoder]
    provider_pc,          \* "ready" before the call, "done" after it
    provider_result,      \* what the call did: [raised, value]
    constructed,          \* the model constructors run so far, in order
    \* ---- T5TrainStep.attn_mask_postprocess ----
    mask_pc,              \* "ready" before the call, "done" after it
    attention_mask,       \* the [B,S] input tensor
    extended_attention_mask, \* the returned tensor
    \* ---- prepare_data_loader, _handle_megatron_data_iterator ----
    micro_batch_size,     \* args.micro_batch_size
    num_micro_batches,    \* args.num_micro_batches
    megatron_dataset_flag, \* args.megatron_dataset_flag
    consumed_samples,     \* args.consumed_samples: <<>> (None) or a triple
    consumed,             \* args.consumed_{train,valid,test}_samples
    data_parallel,        \* mpu data-parallel [world_size, rank]
    tp_src_rank,          \* this rank is the tensor-parallel source rank
    dataloader,           \* the caller's dataloader object
    data_pc,              \* position in prepare_data_loader
    data_raised,          \* the exception that ended prepare_data_loader, or None
    configured_micro_batch_size, \* args.micro_batch_size when the call began
    builder_micro_batch_size,    \* args.micro_batch_size while the native builder ran
    new_dataloader,       \* the DataLoader rebuilt at line 322
    inner_call,           \* the arguments of the call at lines 326-335
    iterators,            \* the returned train/valid/test iterators
    last_call,            \* the latest next()/iter() call on an iterator and its result
    handled,              \* per iterator: the _handle_megatron_data_iterator call made for it
    \* ---- MegatronEngine.megatron_generate ----
    gen_config,           \* the args fields megatron_generate reads
    gen_call,             \* the arguments of the call, the same on every rank
    gen_pc,               \* per rank: position in megatron_generate
    gen_outcome,          \* per rank: how validation ended, and the locals it set
    prompts,              \* per rank: sizes_list and the prompts_* tensors (rank 0 only)
    broadcasts,           \* per rank: how many of the broadcasts it has joined
    received,             \* per rank: sizes, context_tokens_tensor, context_length_tensor
    generation,           \* per rank: the engine generation call made
    \* ---- MegatronEngine ----
    eng_config,           \* the args fields and mpu facts the engine reads
    engine,               \* per rank: the MegatronEngine's fields (self.*), the wrapped
                          \* module's training flag and optimizer.skipped_iter
    rank_args,            \* per rank: the args fields the engine writes
    history,              \* per rank: what has happened so far (for the properties)
    eng_pc,               \* per rank: position in save_checkpoint/load_checkpoint
    loaded,               \* per rank: what the engine's load_checkpoint returned
    pending,              \* per rank: the calls of the script not yet run
    issued,               \* the calls the script has made so far, by kind
    checkpoints,          \* the checkpoint storage: directory -> what it holds
    arrived,              \* the ranks waiting in the current barrier
    go,                   \* per rank: released from its barrier
    \* ---- single calls of eval_step and get_batch_func ----
    call,                 \* the call: the function, its arguments and what it reads
    result,               \* what the call returned and wrote, once it has run
    \* ---- MegatronLMOptimizerWrapper and MegatronLMSchedulerWrapper ----
    wrapped,              \* the wrapped optimizer and scheduler: the skipped-step flag
                          \* and the calls that reached them
    wrapper_calls         \* the calls made on the wrappers so far, with the latest one

providerVars == <<model_type_name, pretraining_flag, num_labels, bert_binary_head,
                  provider_args, provider_pc, provider_result, constructed>>
maskVars == <<mask_pc, attention_mask, extended_attention_mask>>

dataVars == <<micro_batch_size, num_micro_batches, megatron_dataset_flag, consumed_samples,
              consumed, data_parallel, tp_src_rank, dataloader, data_pc, data_raised,
              configured_micro_batch_size, builder_micro_batch_size, new_dataloader,
              inner_call, iterators, last_call, handled>>

genVars == <<gen_config, gen_call, gen_pc, gen_outcome, prompts, broadcasts, received,
             generation>>

engVars == <<eng_config, engine, rank_args, history, eng_pc, loaded, pending,
             issued, checkpoints, arrived, go>>

callVars == <<call, result>>

wrapVars == <<wrapped, wrapper_calls>>

vars == <<providerVars, maskVars, dataVars, genVars, engVars, callVars, wrapVars>>

(***************************************************************************)
(* model_provider_func (lines 91-141)                                      *)
(***************************************************************************)
ModelTypeNames == {"bert", "gpt", "t5", "llama", "BERT"}
NumLabelsValues == {1, 2, 3}

\* initialize(): args.bert_binary_head (lines 918-921)
BertBinaryHead(mtn, pretraining, labels) ==
    mtn = "bert" /\ pretraining /\ labels = 2

\* the constructor calls of lines 105-138, as the object they build
BertModel(binary_head, pa) ==
    [class |-> "BertModel", num_tokentypes |-> IF binary_head THEN 2 ELSE 0,
     add_binary_head |-> binary_head, parallel_output |-> TRUE,
     pre_process |-> pa.pre_process, post_process |-> pa.post_process]

Classification(labels, pa) ==
    [class |-> "Classification", num_classes |-> labels, num_tokentypes |-> 2,
     pre_process |-> pa.pre_process, post_process |-> pa.post_process]

GPTModel(pa) ==
    [class |-> "GPTModel", num_tokentypes |-> 0, parallel_output |-> TRUE,
     pre_process |-> pa.pre_process, post_process |-> pa.post_process]

T5Model(pa) ==
    [class |-> "T5Model", num_tokentypes |-> 0, parallel_output |-> TRUE,
     pre_process |-> pa.pre_process, post_process |-> pa.post_process,
     add_encoder |-> pa.add_encoder, add_decoder |-> pa.add_decoder]

\* Python's None where a model object is expected
NoModel == [class |-> None]

Returned(value) == [raised |-> None, value |-> value]
Raised(error) == [raised |-> error, value |-> NoModel]

\* A plausible slip: the final else returns None instead of raising.
model_provider_func_no_raise(mtn, pretraining, binary_head, labels, pa) ==
    IF mtn = "bert"
    THEN IF pretraining
         THEN Returned(BertModel(binary_head, pa))
         ELSE Returned(Classification(labels, pa))
    ELSE IF mtn = "gpt" THEN Returned(GPTModel(pa))
    ELSE IF mtn = "t5" THEN Returned(T5Model(pa))
    ELSE Returned(NoModel)

\* lines 102-141: the switch on args.model_type_name
model_provider_func(mtn, pretraining, binary_head, labels, pa) ==
    IF mtn = "bert"
    THEN IF pretraining
         THEN Returned(BertModel(binary_head, pa))
         ELSE Returned(Classification(labels, pa))
    ELSE IF mtn = "gpt" THEN Returned(GPTModel(pa))
    ELSE IF mtn = "t5" THEN Returned(T5Model(pa))
    ELSE Raised("ValueError")

ProviderInit ==
    /\ model_type_name \in ModelTypeNames
    /\ pretraining_flag \in BOOLEAN
    /\ num_labels \in NumLabelsValues
    /\ bert_binary_head = BertBinaryHead(model_type_name, pretraining_flag, num_labels)
    /\ provider_args \in [pre_process : BOOLEAN, post_process : BOOLEAN,
                          add_encoder : BOOLEAN, add_decoder : BOOLEAN]
    /\ provider_pc = "ready"
    /\ provider_result = Returned(NoModel)
    /\ constructed = <<>>

ProviderIdle ==
    /\ model_type_name = None
    /\ pretraining_flag = FALSE
    /\ num_labels = 0
    /\ bert_binary_head = FALSE
    /\ provider_args = [pre_process |-> TRUE, post_process |-> TRUE,
                        add_encoder |-> TRUE, add_decoder |-> TRUE]
    /\ provider_pc = "idle"
    /\ provider_result = Returned(NoModel)
    /\ constructed = <<>>

\* one call of model_provider_func
CallModelProvider ==
    /\ provider_pc = "ready"
    /\ provider_pc' = "done"
    /\ provider_result' = model_provider_func(model_type_name, pretraining_flag,
                                              bert_binary_head, num_labels, provider_args)
    /\ constructed' = IF provider_result'.value = NoModel
                      THEN constructed
                      ELSE Append(constructed, provider_result'.value.class)
    /\ UNCHANGED <<model_type_name, pretraining_flag, num_labels, bert_binary_head,
                   provider_args>>
    /\ UNCHANGED <<maskVars, dataVars, genVars, engVars, callVars, wrapVars>>

(***************************************************************************)
(* T5TrainStep.attn_mask_postprocess (lines 739-750)                       *)
(* A tensor is a function over 1..n per dimension; its shape is read off   *)
(* the domains.                                                            *)
(***************************************************************************)
Shape2(t) == <<Cardinality(DOMAIN t), Cardinality(DOMAIN t[1])>>
Shape3(t) == <<Cardinality(DOMAIN t), Cardinality(DOMAIN t[1]),
               Cardinality(DOMAIN t[1][1])>>

\* tensor.unsqueeze(1): [b, s] -> [b, 1, s]
Unsqueeze1(t) == [b \in DOMAIN t |-> [i \in {1} |-> t[b]]]
\* tensor.unsqueeze(2): [b, s] -> [b, s, 1]
Unsqueeze2(t) == [b \in DOMAIN t |-> [i \in DOMAIN t[b] |-> [j \in {1} |-> t[b][i]]]]

\* x * y with broadcasting of [b, 1, s] against [b, s, 1] -> [b, s, s]
BroadcastMul(x, y) ==
    [b \in DOMAIN x |->
        [i \in DOMAIN y[b] |->
            [j \in DOMAIN x[b][1] |-> x[b][1][j] * y[b][i][1]]]]

\* t < 0.5, elementwise, on integer entries: v < 1/2 iff 2v < 1
LessThanHalf(t) ==
    [b \in DOMAIN t |-> [i \in DOMAIN t[b] |-> [j \in DOMAIN t[b][i] |-> 2 * t[b][i][j] < 1]]]

\* A plausible slip: the binarisation keeps the attended pairs (> 0.5).
attn_mask_postprocess_keep(mask) ==
    LET attention_mask_bss == BroadcastMul(Unsqueeze1(mask), Unsqueeze2(mask))
    IN  [b \in DOMAIN attention_mask_bss |->
           [i \in DOMAIN attention_mask_bss[b] |->
              [j \in DOMAIN attention_mask_bss[b][i] |->
                  2 * attention_mask_bss[b][i][j] > 1]]]

\* lines 740-750
attn_mask_postprocess(mask) ==
    LET attention_mask_b1s == Unsqueeze1(mask)
        attention_mask_bs1 == Unsqueeze2(mask)
        attention_mask_bss == BroadcastMul(attention_mask_b1s, attention_mask_bs1)
    IN  LessThanHalf(attention_mask_bss)

MaskInputs ==
    UNION {[1..b -> [1..s -> {0, 1}]] : b \in 1..MaxBatch, s \in 1..MaxSeq}

MaskInit ==
    /\ mask_pc = "ready"
    /\ attention_mask \in MaskInputs
    /\ extended_attention_mask = <<>>

MaskIdle ==
    /\ mask_pc = "idle"
    /\ attention_mask = <<>>
    /\ extended_attention_mask = <<>>

\* one call of T5TrainStep.attn_mask_postprocess
CallAttnMaskPostprocess ==
    /\ mask_pc = "ready"
    /\ mask_pc' = "done"
    /\ extended_attention_mask' = attn_mask_postprocess(attention_mask)
    /\ UNCHANGED attention_mask
    /\ UNCHANGED <<providerVars, dataVars, genVars, engVars, callVars, wrapVars>>

(***************************************************************************)
(* prepare_data_loader (lines 302-364) and _handle_megatron_data_iterator  *)
(* (lines 284-299).  The machine is one rank's view: what the presence     *)
(* broadcast delivers from the tensor-parallel source rank is an input.    *)
(***************************************************************************)
PyNone == [class |-> "NoneType"]
PyInt(n) == [class |-> "int", v |-> n]

\* torch.utils.data samplers: a BatchSampler has a batch_size attribute
PlainSampler == [class |-> "SequentialSampler"]
BatchSampler(n) == [class |-> "BatchSampler", batch_size |-> n]

\* The DataLoader objects torch can build, by how batching was asked for:
\*   batch_size=n             -> batch_size n, its own BatchSampler(n) as batch_sampler
\*   sampler=BatchSampler(n)  -> batch_size None, batch_sampler None
\*   batch_sampler=BatchSampler(n) -> batch_size None, a default sampler
\*   batch_size=None alone    -> no batching at all
LoaderWithBatchSize(n) ==
    [class |-> "DataLoader", batch_size |-> PyInt(n), sampler |-> PlainSampler,
     batch_sampler |-> BatchSampler(n)]
LoaderWithSamplerBatches(n) ==
    [class |-> "DataLoader", batch_size |-> PyNone, sampler |-> BatchSampler(n),
     batch_sampler |-> PyNone]
LoaderWithBatchSampler(n) ==
    [class |-> "DataLoader", batch_size |-> PyNone, sampler |-> PlainSampler,
     batch_sampler |-> BatchSampler(n)]
LoaderUnbatched ==
    [class |-> "DataLoader", batch_size |-> PyNone, sampler |-> PlainSampler,
     batch_sampler |-> PyNone]

GenericLoaders ==
    {LoaderWithBatchSize(n) : n \in 1..MaxLoaderBatchSize}
    \cup {LoaderWithSamplerBatches(n) : n \in 1..MaxLoaderBatchSize}
    \cup {LoaderWithBatchSampler(n) : n \in 1..MaxLoaderBatchSize}
    \cup {LoaderUnbatched}

\* MegatronLMDummyDataLoader(**dataset_kwargs) (lines 183-190), which native
\* mode is given: dataset_args holds the keyword arguments (of them, the
\* micro_batch_size one, Absent when it was not passed) and always
\* megatron_dataset_flag = True
MegatronLMDummyDataLoader(kw_micro_batch_size) ==
    [class |-> "MegatronLMDummyDataLoader",
     dataset_args |-> [micro_batch_size |-> kw_micro_batch_size,
                       megatron_dataset_flag |-> TRUE]]

\* the dummy loaders a caller may have built
DummyLoaders ==
    {MegatronLMDummyDataLoader(kw) :
        kw \in {[class |-> "absent"]} \cup {PyInt(n) : n \in 1..MaxMicroBatchSize}}

NoLoader == [class |-> "NoneType"]
NoInnerCall == [called |-> FALSE]

\* torch.utils.data.DataLoader(dataset, **kwargs) at line 322: the loader the
\* keyword arguments in kw.keys build.  A missing batch_size defaults to 1 and
\* is None once a batch_sampler is given; with a batch_size, torch wraps the
\* sampler in its own BatchSampler of that size.
DataLoader(kw) ==
    IF "batch_sampler" \in kw.keys /\ kw.batch_sampler # PyNone
    THEN [class |-> "DataLoader", batch_size |-> PyNone, sampler |-> PlainSampler,
          batch_sampler |-> kw.batch_sampler]
    ELSE IF "batch_size" \in kw.keys /\ kw.batch_size = PyNone
    THEN [class |-> "DataLoader", batch_size |-> PyNone, sampler |-> kw.sampler,
          batch_sampler |-> PyNone]
    ELSE [class |-> "DataLoader", batch_size |-> kw.batch_size, sampler |-> kw.sampler,
          batch_sampler |-> BatchSampler(kw.batch_size.v)]

\* the number of samples in each batch a DataLoader yields (0: it does not batch)
EffectiveBatchSize(dl) ==
    IF dl.batch_size # PyNone THEN dl.batch_size.v
    ELSE IF dl.batch_sampler # PyNone THEN dl.batch_sampler.batch_size
    ELSE IF dl.sampler.class = "BatchSampler" THEN dl.sampler.batch_size
    ELSE 0

\* A plausible slip: the microbatch multiplier is forgotten.
ScaledMicroBatchSize_unscaled(mbs, nmb) == mbs

\* line 308 (and line 345): args.micro_batch_size * args.num_micro_batches
ScaledMicroBatchSize(mbs, nmb) == mbs * nmb

\* lines 308-322: [raised, old: the caller's loader after the in-place sampler
\* updates, new: the rebuilt loader].  kwargs is read off the caller's loader
\* (line 309); a sampler object is shared by both loaders.
RebuildDataLoader(dl, mbs, nmb) ==
    LET size == ScaledMicroBatchSize(mbs, nmb)
        all_keys == {"batch_size", "shuffle", "sampler", "batch_sampler", "drop_last"}
    IN  IF dl.class = "MegatronLMDummyDataLoader"
        THEN \* the dummy loader has no attribute dataset (line 322)
             [raised |-> "AttributeError", old |-> dl, new |-> NoLoader]
        ELSE IF dl.batch_size = PyNone
        THEN IF dl.sampler.class = "BatchSampler"
             THEN LET sampler == [dl.sampler EXCEPT !.batch_size = size]
                  IN  [raised |-> None,
                       old |-> [dl EXCEPT !.sampler = sampler],
                       new |-> DataLoader([keys |-> all_keys, batch_size |-> dl.batch_size,
                                           sampler |-> sampler,
                                           batch_sampler |-> dl.batch_sampler])]
             ELSE IF dl.batch_sampler = PyNone
             THEN \* None has no attribute batch_size (line 317)
                  [raised |-> "AttributeError", old |-> dl, new |-> NoLoader]
             ELSE LET batch_sampler == [dl.batch_sampler EXCEPT !.batch_size = size]
                  IN  [raised |-> None,
                       old |-> [dl EXCEPT !.batch_sampler = batch_sampler],
                       new |-> DataLoader([keys |-> {"batch_sampler", "drop_last"},
                                           batch_sampler |-> batch_sampler])]
        ELSE [raised |-> None,
              old |-> dl,
              new |-> DataLoader([keys |-> all_keys \ {"batch_sampler"},
                                  batch_size |-> PyInt(size), sampler |-> dl.sampler])]

\* ---- iterators ----
IteratorNames == {"train", "valid", "test"}
BuilderId(w) == CASE w = "train" -> 1 [] w = "valid" -> 2 [] w = "test" -> 3

\* a mapping (a dict) is its set of <<key, value>> pairs
EmptyMapping == {}
Batch(n) == {<<"text", n>>}

NoIterator == [kind |-> "None", id |-> 0, remaining |-> 0, nexts |-> 0]
\* what the engine's builder hands back for one split: an iterator over
\* `items` batches, or a list of iterators under virtual pipeline splitting
NativeIterator(w, items) == [kind |-> "iterator", id |-> BuilderId(w), remaining |-> items, nexts |-> 0]
IteratorList(w) == [kind |-> "list", id |-> BuilderId(w), remaining |-> 0, nexts |-> 0]
\* DummyMegatronDataloader() at line 298: a new object
DummyMegatronDataloader(w) == [kind |-> "dummy", id |-> 3 + BuilderId(w), remaining |-> 0, nexts |-> 0]

BuilderResults(w) ==
    {NoIterator, IteratorList(w)} \cup {NativeIterator(w, n) : n \in 0..MaxItems}

\* A plausible slip: the stand-in is handed out whenever the local iterator is
\* None, whatever the source rank has.
handle_megatron_data_iterator_local(w, data_iterator, src_empty) ==
    IF data_iterator.kind = "None" THEN DummyMegatronDataloader(w) ELSE data_iterator

\* lines 284-299; src_empty is the flag as it is after the broadcast of line 294
handle_megatron_data_iterator(w, data_iterator, src_empty) ==
    LET is_data_iterator_empty == data_iterator.kind = "None"
    IN  IF ~src_empty /\ is_data_iterator_empty
        THEN DummyMegatronDataloader(w)
        ELSE data_iterator

\* what the source rank's flag can be on this rank after the broadcast
SrcFlags(data_iterator) ==
    IF tp_src_rank THEN {data_iterator.kind = "None"} ELSE BOOLEAN

\* lines 292-296: the presence flag is broadcast once, whatever the iterator is
PresenceBroadcasts(data_iterator) == 1

\* A plausible slip: the multiplied value is left in place.
RestoredMicroBatchSize_kept(mbs, nmb) == mbs

\* line 354: args.micro_batch_size // args.num_micro_batches
RestoredMicroBatchSize(mbs, nmb) == mbs \div nmb

\* no _handle_megatron_data_iterator call made yet
NotHandled == [data_iterator |-> NoIterator, src_empty |-> TRUE, broadcasts |-> 0,
               returned |-> NoIterator]

NoCall == [op |-> None, on |-> None, raised |-> None, value |-> EmptyMapping, object |-> 0]

\* A plausible slip: the stand-in ends like an ordinary iterator.
DummyNext_ends(it) ==
    IF it.nexts >= 1
    THEN [raised |-> "StopIteration", value |-> EmptyMapping]
    ELSE [raised |-> None, value |-> EmptyMapping]

\* DummyMegatronDataloader.__next__ (lines 289-290)
DummyNext(it) == [raised |-> None, value |-> EmptyMapping]

\* DummyMegatronDataloader.__iter__ (lines 286-287): the object itself
DummyIter(it) == it.id

\* next() on an engine iterator: a batch, or StopIteration at its end
NativeNext(it) ==
    IF it.remaining > 0
    THEN [raised |-> None, value |-> Batch(it.remaining)]
    ELSE [raised |-> "StopIteration", value |-> EmptyMapping]

DataInit ==
    /\ micro_batch_size \in 1..MaxMicroBatchSize
    /\ num_micro_batches \in 1..MaxNumMicroBatches
    /\ megatron_dataset_flag \in BOOLEAN
    /\ dataloader \in (IF megatron_dataset_flag THEN DummyLoaders
                                                ELSE GenericLoaders \cup DummyLoaders)
    \* read in native mode only
    /\ consumed_samples \in (IF dataloader \in DummyLoaders THEN {<<>>, <<4, 2, 0>>}
                                                          ELSE {<<>>})
    /\ consumed = [train |-> 0, valid |-> 0, test |-> 0]
    \* read in generic mode only
    /\ data_parallel \in {[world_size |-> n, rank |-> r] :
                             n \in 1..MaxDataParallel, r \in 0..(MaxDataParallel - 1)}
    /\ data_parallel.rank < data_parallel.world_size
    /\ dataloader \in DummyLoaders => data_parallel.world_size = 1
    /\ tp_src_rank \in (IF dataloader \in DummyLoaders THEN BOOLEAN ELSE {TRUE})
    /\ data_pc = "ready"
    /\ data_raised = None
    /\ configured_micro_batch_size = micro_batch_size
    /\ builder_micro_batch_size = 0
    /\ new_dataloader = NoLoader
    /\ inner_call = NoInnerCall
    /\ iterators = [w \in IteratorNames |-> NoIterator]
    /\ last_call = NoCall
    /\ handled = [w \in IteratorNames |-> NotHandled]

DataIdle ==
    /\ micro_batch_size = 1
    /\ num_micro_batches = 1
    /\ megatron_dataset_flag = FALSE
    /\ consumed_samples = <<>>
    /\ consumed = [train |-> 0, valid |-> 0, test |-> 0]
    /\ data_parallel = [world_size |-> 1, rank |-> 0]
    /\ tp_src_rank = TRUE
    /\ dataloader = NoLoader
    /\ data_pc = "idle"
    /\ data_raised = None
    /\ configured_micro_batch_size = 1
    /\ builder_micro_batch_size = 0
    /\ new_dataloader = NoLoader
    /\ inner_call = NoInnerCall
    /\ iterators = [w \in IteratorNames |-> NoIterator]
    /\ last_call = NoCall
    /\ handled = [w \in IteratorNames |-> NotHandled]

NotData == <<providerVars, maskVars, genVars, engVars, callVars, wrapVars>>

\* MegatronLMDummyDataLoader.set_megatron_data_args (lines 192-200), called
\* before prepare_data_loader: every entry of dataset_args is written into
\* the global args
SetMegatronDataArgs ==
    /\ data_pc = "ready"
    /\ dataloader.class = "MegatronLMDummyDataLoader"
    /\ LET dataset_args == dataloader.dataset_args
           value == IF dataset_args.micro_batch_size = [class |-> "absent"]
                    THEN micro_batch_size
                    ELSE dataset_args.micro_batch_size.v
       IN  /\ megatron_dataset_flag' = dataset_args.megatron_dataset_flag
           /\ micro_batch_size' = value
           /\ configured_micro_batch_size' = value
    /\ UNCHANGED <<num_micro_batches, consumed_samples, consumed, data_parallel,
                   tp_src_rank, dataloader, data_pc, data_raised,
                   builder_micro_batch_size, new_dataloader, inner_call, iterators,
                   last_call, handled>>
    /\ UNCHANGED NotData

\* prepare_data_loader in generic mode (lines 305-335), the whole call
PrepareGeneric ==
    /\ data_pc = "ready"
    /\ ~megatron_dataset_flag
    /\ LET r == RebuildDataLoader(dataloader, micro_batch_size, num_micro_batches)
       IN  /\ dataloader' = r.old
           /\ new_dataloader' = r.new
           /\ data_raised' = r.raised
           /\ data_pc' = IF r.raised = None THEN "done" ELSE "raised"
           /\ inner_call' =
                IF r.raised = None
                THEN [called |-> TRUE, dataloader |-> r.new,
                      num_processes |-> data_parallel.world_size,
                      process_index |-> data_parallel.rank,
                      split_batches |-> FALSE, put_on_device |-> TRUE]
                ELSE inner_call
    /\ UNCHANGED <<micro_batch_size, num_micro_batches, megatron_dataset_flag,
                   consumed_samples, consumed, data_parallel, tp_src_rank,
                   configured_micro_batch_size, builder_micro_batch_size, iterators,
                   last_call, handled>>
    /\ UNCHANGED NotData

\* prepare_data_loader in native mode up to the call of the builder (lines 337-353)
PrepareNativeBegin ==
    /\ data_pc = "ready"
    /\ megatron_dataset_flag
    /\ consumed' = IF consumed_samples # <<>>
                   THEN [train |-> consumed_samples[1], valid |-> consumed_samples[2],
                         test |-> consumed_samples[3]]
                   ELSE [train |-> 0, valid |-> 0, test |-> 0]
    /\ micro_batch_size' = ScaledMicroBatchSize(micro_batch_size, num_micro_batches)
    /\ data_pc' = "building"
    /\ UNCHANGED <<num_micro_batches, megatron_dataset_flag, consumed_samples,
                   data_parallel, tp_src_rank, dataloader, data_raised,
                   configured_micro_batch_size, builder_micro_batch_size,
                   new_dataloader, inner_call, iterators, last_call, handled>>
    /\ UNCHANGED NotData

\* the order of the three _handle_megatron_data_iterator calls (lines 356-362)
HandleOrder == <<"train", "valid", "test">>

\* the iterator whose presence broadcast this rank waits in
CurrentIterator ==
    HandleOrder[CHOOSE i \in 1..3 :
                   /\ handled[HandleOrder[i]].broadcasts = 0
                   /\ \A j \in 1..(i - 1) : handled[HandleOrder[j]].broadcasts # 0]

\* the builder returns: line 354 restores args.micro_batch_size, and the rank
\* enters the broadcast (line 294) of the first _handle_megatron_data_iterator
\* call
PrepareNativeFinish ==
    /\ data_pc = "building"
    /\ \E built \in [IteratorNames -> UNION {BuilderResults(w) : w \in IteratorNames}] :
         /\ \A w \in IteratorNames : built[w] \in BuilderResults(w)
         /\ handled' = [w \in IteratorNames |->
                           [NotHandled EXCEPT !.data_iterator = built[w]]]
    /\ builder_micro_batch_size' = micro_batch_size
    /\ micro_batch_size' = RestoredMicroBatchSize(micro_batch_size, num_micro_batches)
    /\ data_pc' = "handling"
    /\ UNCHANGED <<num_micro_batches, megatron_dataset_flag, consumed_samples, consumed,
                   data_parallel, tp_src_rank, dataloader, data_raised,
                   configured_micro_batch_size, new_dataloader, inner_call, iterators,
                   last_call>>
    /\ UNCHANGED NotData

\* the presence broadcast of one _handle_megatron_data_iterator call returns
\* (lines 294-299); after the third call prepare_data_loader returns the
\* three iterators (line 364), else the rank enters the next broadcast
HandleIteratorReturns ==
    /\ data_pc = "handling"
    /\ LET w == CurrentIterator
           data_iterator == handled[w].data_iterator
       IN  \E src \in SrcFlags(data_iterator) :
              LET after == [handled EXCEPT ![w] =
                               [data_iterator |-> data_iterator, src_empty |-> src,
                                broadcasts |-> PresenceBroadcasts(data_iterator),
                                returned |-> handle_megatron_data_iterator(
                                                 w, data_iterator, src)]]
              IN  /\ handled' = after
                  /\ IF w = HandleOrder[3]
                     THEN /\ iterators' = [v \in IteratorNames |-> after[v].returned]
                          /\ data_pc' = "done"
                     ELSE UNCHANGED <<iterators, data_pc>>
    /\ UNCHANGED <<micro_batch_size, num_micro_batches, megatron_dataset_flag,
                   consumed_samples, consumed, data_parallel, tp_src_rank, dataloader,
                   data_raised, configured_micro_batch_size, builder_micro_batch_size,
                   new_dataloader, inner_call, last_call>>
    /\ UNCHANGED NotData

\* the presence broadcast raises (the tensor-parallel group is gone): the
\* error leaves prepare_data_loader, after line 354 has run
HandleIteratorRaises ==
    /\ data_pc = "handling"
    /\ data_raised' = "RuntimeError"
    /\ data_pc' = "raised"
    /\ UNCHANGED <<micro_batch_size, num_micro_batches, megatron_dataset_flag,
                   consumed_samples, consumed, data_parallel, tp_src_rank, dataloader,
                   configured_micro_batch_size, builder_micro_batch_size,
                   new_dataloader, inner_call, iterators, last_call, handled>>
    /\ UNCHANGED NotData

\* the builder raises: the exception leaves prepare_data_loader at line 353
PrepareNativeBuilderRaises ==
    /\ data_pc = "building"
    /\ builder_micro_batch_size' = micro_batch_size
    /\ data_raised' = "Exception"
    /\ data_pc' = "raised"
    /\ UNCHANGED <<micro_batch_size, num_micro_batches, megatron_dataset_flag,
                   consumed_samples, consumed, data_parallel, tp_src_rank, dataloader,
                   configured_micro_batch_size, new_dataloader, inner_call, iterators,
                   last_call, handled>>
    /\ UNCHANGED NotData

IteratorFrame ==
    /\ UNCHANGED <<micro_batch_size, num_micro_batches, megatron_dataset_flag,
                   consumed_samples, consumed, data_parallel, tp_src_rank, dataloader,
                   data_pc, data_raised, configured_micro_batch_size,
                   builder_micro_batch_size, new_dataloader, inner_call, handled>>
    /\ UNCHANGED NotData

\* next(it) on the stand-in (lines 289-290)
NextOnDummy(w) ==
    /\ data_pc = "done"
    /\ iterators[w].kind = "dummy"
    /\ iterators[w].nexts < MaxNextCalls
    /\ LET r == DummyNext(iterators[w])
       IN  last_call' = [op |-> "next", on |-> w, raised |-> r.raised, value |-> r.value,
                         object |-> 0]
    /\ iterators' = [iterators EXCEPT ![w].nexts = @ + 1]
    /\ IteratorFrame

\* iter(it) on the stand-in (lines 286-287)
IterOnDummy(w) ==
    /\ data_pc = "done"
    /\ iterators[w].kind = "dummy"
    /\ last_call' = [op |-> "iter", on |-> w, raised |-> None, value |-> EmptyMapping,
                     object |-> DummyIter(iterators[w])]
    /\ UNCHANGED iterators
    /\ IteratorFrame

\* next(it) on an iterator the engine built
NextOnNative(w) ==
    /\ data_pc = "done"
    /\ iterators[w].kind = "iterator"
    /\ iterators[w].nexts < MaxNextCalls
    /\ LET r == NativeNext(iterators[w])
       IN  /\ last_call' = [op |-> "next", on |-> w, raised |-> r.raised,
                            value |-> r.value, object |-> 0]
           /\ iterators' = [iterators EXCEPT
                               ![w].nexts = @ + 1,
                               ![w].remaining = IF @ > 0 THEN @ - 1 ELSE 0]
    /\ IteratorFrame

(***************************************************************************)
(* MegatronEngine.megatron_generate (lines 1213-1389), called with the     *)
(* same arguments on every rank.  A rank runs from the call to its first   *)
(* blocking broadcast in one step, then one step per broadcast.            *)
(***************************************************************************)
Ranks == 0..(NumRanks - 1)

\* a float, held in tenths
PyFloat(t) == [class |-> "float", tenths |-> t]
\* a keyword argument the caller did not pass
Absent == [class |-> "absent"]
\* a value of some other type (a string)
PyStr == [class |-> "str"]

\* the value of an int or a float, in tenths
InTenths(x) == IF x.class = "int" THEN 10 * x.v ELSE x.tenths

\* kwargs.get(name, default)
KwGet(v, default) == IF v = Absent THEN default ELSE v

\* tokenizer.eod
Eod == 0
\* inputs: a [B, L] tensor of prompt token ids (all different from eod)
InputIds(B, L) == [b \in 1..B |-> [i \in 1..L |-> 10 * b + i]]
\* an attention mask for inputs: the first row is full, the others end in one pad
PromptMask(B, L) == [b \in 1..B |-> [i \in 1..L |-> IF b = 1 \/ i < L THEN 1 ELSE 0]]

RECURSIVE SumSeq(_)
SumSeq(s) == IF s = <<>> THEN 0 ELSE Head(s) + SumSeq(Tail(s))

\* A plausible slip: the length is rounded down to a multiple of 4.
CeilQuarter_floor(n) == n \div 4

\* math.ceil(n / 4) for n >= 0
CeilQuarter(n) == (n + 3) \div 4

GoodConfig ==
    [model_type_name |-> "gpt", data_parallel_size |-> 1, sequence_parallel |-> FALSE,
     recompute_granularity |-> None, vocab_file |-> "vocab.json"]

GenConfigs ==
    [model_type_name : {"gpt", "bert"}, data_parallel_size : {1, 2},
     sequence_parallel : BOOLEAN, recompute_granularity : {None, "full"},
     vocab_file : {None, "vocab.json"}]

BaseCall ==
    [batch |-> 1, length |-> 2, attention_mask |-> FALSE,
     max_length |-> PyNone, max_new_tokens |-> PyInt(3), num_beams |-> PyNone,
     temperature |-> PyNone, top_k |-> PyNone, top_p |-> PyNone,
     length_penalty |-> PyNone, top_p_decay |-> Absent, top_p_bound |-> Absent,
     add_BOS |-> Absent, stop_token |-> Absent]

LengthLimits ==
    {<<ml, mnt>> : ml \in {PyNone, PyInt(2), PyInt(6)},
                   mnt \in {PyNone, PyInt(0), PyInt(3)}}
Temperatures ==
    {PyNone, PyFloat(-5), PyFloat(0), PyFloat(1), PyInt(50), PyFloat(1000), PyFloat(1001)}
TopKs == {PyNone, PyInt(-1), PyInt(0), PyInt(10), PyInt(1000), PyInt(1001), PyInt(1500)}
TopPs == {PyNone, PyFloat(-1), PyFloat(0), PyFloat(9), PyFloat(10), PyFloat(11)}
TopPAux == {Absent, PyFloat(-1), PyFloat(5), PyFloat(11)}
NumBeams == {PyNone, PyInt(0), PyInt(1), PyInt(2), PyFloat(20)}
AddBos == {Absent, [class |-> "bool", v |-> TRUE], [class |-> "bool", v |-> FALSE], PyStr}
StopTokens == {Absent, PyNone, PyInt(7), PyStr}

\* The calls explored: every configuration with every length limit; every
\* combination of the sampling scalars; every combination of the prompt
\* shape, the beam width and the remaining keyword arguments.
ConfigCall(cfg, c) ==
    \E k \in GenConfigs, ll \in LengthLimits, t \in {PyNone, PyFloat(0)} :
        /\ cfg = k
        /\ c = [BaseCall EXCEPT !.max_length = ll[1], !.max_new_tokens = ll[2],
                                !.temperature = t]
SamplingCall(cfg, c) ==
    \E t \in Temperatures, k \in TopKs, p \in TopPs, aux \in TopPAux \X TopPAux,
       nb \in {<<PyNone, 1>>, <<PyInt(2), 2>>} :
        /\ cfg = GoodConfig
        /\ c = [BaseCall EXCEPT !.temperature = t, !.top_k = k, !.top_p = p,
                                !.top_p_decay = aux[1], !.top_p_bound = aux[2],
                                !.num_beams = nb[1], !.batch = nb[2]]
PromptCall(cfg, c) ==
    \E shape \in (1..MaxPrompts) \X (1..MaxPromptLen) \X BOOLEAN,
       ll \in LengthLimits, nb \in NumBeams,
       kw \in AddBos \X StopTokens \X {PyNone, PyFloat(20)} :
        /\ cfg = GoodConfig
        /\ c = [BaseCall EXCEPT !.batch = shape[1], !.length = shape[2],
                                !.attention_mask = shape[3],
                                !.max_length = ll[1], !.max_new_tokens = ll[2],
                                !.num_beams = nb, !.add_BOS = kw[1],
                                !.stop_token = kw[2], !.length_penalty = kw[3]]

Ok(locals) == [kind |-> "ok", error |-> None, msg |-> None, locals |-> locals]
Raise(error, msg) == [kind |-> "raise", error |-> error, msg |-> msg, locals |-> <<>>]
Return(msg) == [kind |-> "return", error |-> None, msg |-> msg, locals |-> <<>>]
NotCalled == [kind |-> "none", error |-> None, msg |-> None, locals |-> <<>>]

\* the messages of the exceptions raised at lines 1269-1290
MsgTemperature == "temperature must be a positive number less than or equal to 100.0"
MsgTopK == "top_k must be a positive number less than or equal to 1000"
MsgTopPAndTopK == "top_p and top_k sampling cannot be set together"
MsgTopP == "top_p must be less than or equal to 1.0"
MsgTopPDecay == "top_p_decay must be less than or equal to 1.0"
MsgTopPBound == "top_p_bound must be less than or equal to 1.0"
\* the string returned at line 1303
MsgBeamBatch == "When doing beam_search, batch size must be 1"

\* A plausible slip: the lower bound is inclusive.
TemperatureInRange_inclusive(t) == 0 <= InTenths(t) /\ InTenths(t) <= 1000

\* line 1268: 0.0 < temperature <= 100.0
TemperatureInRange(t) == 0 < InTenths(t) /\ InTenths(t) <= 1000

\* line 1273: 0 <= top_k <= 1000
TopKInRange(k) == 0 <= InTenths(k) /\ InTenths(k) <= 10000

\* A plausible slip: the exclusion only fires for a top_p above 1.
TopPAndTopKSet_late(p, k) == InTenths(p) > 10 /\ InTenths(k) > 0

\* line 1278: top_p > 0.0 and top_k > 0.0
TopPAndTopKSet(p, k) == InTenths(p) > 0 /\ InTenths(k) > 0

\* lines 1281, 1285, 1289: 0.0 <= x <= 1.0
InUnitInterval(x) == 0 <= InTenths(x) /\ InTenths(x) <= 10

\* lines 1296-1313, after the sampling checks: the beam width, the stop token
\* and the length penalty; `l` holds the locals set so far
ValidateBeam(c, l) ==
    LET beam_width == c.num_beams
        stop_token == KwGet(c.stop_token, PyInt(Eod))
        length_penalty == IF c.length_penalty = PyNone THEN PyFloat(10)
                          ELSE c.length_penalty
    IN  IF beam_width # PyNone /\ beam_width.class # "int"
        THEN Raise("ValueError", "beam_width must be an integer")
        ELSE IF beam_width # PyNone /\ beam_width.v < 1
        THEN Raise("ValueError", "beam_width must be greater than 0")
        ELSE IF beam_width # PyNone /\ c.batch > 1
        THEN Return(MsgBeamBatch)
        ELSE IF stop_token # PyNone /\ stop_token.class # "int"
        THEN Raise("ValueError", "stop_token must be an integer")
        ELSE Ok([temperature |-> l.temperature, top_k |-> l.top_k, top_p |-> l.top_p,
                 top_p_decay |-> l.top_p_decay, top_p_bound |-> l.top_p_bound,
                 add_BOS |-> l.add_BOS, beam_width |-> beam_width,
                 stop_token |-> stop_token, length_penalty |-> length_penalty])

\* lines 1266-1294: the sampling scalars
ValidateSampling(c) ==
    LET temperature == IF c.temperature = PyNone THEN PyFloat(10) ELSE c.temperature
        top_k == IF c.top_k = PyNone THEN PyInt(0) ELSE c.top_k
        top_p == IF c.top_p = PyNone THEN PyFloat(0) ELSE c.top_p
        top_p_decay == KwGet(c.top_p_decay, PyFloat(0))
        top_p_bound == KwGet(c.top_p_bound, PyFloat(0))
        add_BOS == KwGet(c.add_BOS, [class |-> "bool", v |-> FALSE])
    IN  IF c.temperature # PyNone /\ ~TemperatureInRange(temperature)
        THEN Raise("ValueError", MsgTemperature)
        ELSE IF c.top_k # PyNone /\ ~TopKInRange(top_k)
        THEN Raise("ValueError", MsgTopK)
        ELSE IF c.top_p # PyNone /\ TopPAndTopKSet(top_p, top_k)
        THEN Raise("ValueError", MsgTopPAndTopK)
        ELSE IF c.top_p # PyNone /\ ~InUnitInterval(top_p)
        THEN Raise("ValueError", MsgTopP)
        ELSE IF ~InUnitInterval(top_p_decay)
        THEN Raise("ValueError", MsgTopPDecay)
        ELSE IF ~InUnitInterval(top_p_bound)
        THEN Raise("ValueError", MsgTopPBound)
        ELSE IF add_BOS.class # "bool"
        THEN Raise("ValueError", "add_BOS must be a boolean")
        ELSE ValidateBeam(c, [temperature |-> temperature, top_k |-> top_k,
                              top_p |-> top_p, top_p_decay |-> top_p_decay,
                              top_p_bound |-> top_p_bound, add_BOS |-> add_BOS.v])

\* lines 1246-1264: the configuration preconditions
ValidateConfig(cfg, c) ==
    IF cfg.model_type_name # "gpt"
    THEN Raise("NotImplementedError", "Generate method is not implemented for this model")
    ELSE IF cfg.data_parallel_size > 1
    THEN Raise("ValueError", "Generate method requires data parallelism to be 1")
    ELSE IF cfg.sequence_parallel
    THEN Raise("ValueError", "Generate method requires sequence parallelism to be False")
    ELSE IF cfg.recompute_granularity # None
    THEN Raise("ValueError", "Checkpoint activations cannot be set for inference")
    ELSE IF cfg.vocab_file = None
    THEN Raise("ValueError", "Vocab file is required for inference")
    ELSE IF c.max_length = PyNone /\ c.max_new_tokens = PyNone
    THEN Raise("ValueError", "max_length or max_new_tokens are required for inference")
    ELSE Ok(<<>>)

\* lines 1246-1313: every check made before the prompt tensors are prepared
Validate(cfg, c) ==
    IF ValidateConfig(cfg, c).kind # "ok" THEN ValidateConfig(cfg, c)
    ELSE ValidateSampling(c)

NoPrompts == [sizes_list |-> <<>>, tokens |-> <<>>, lengths |-> <<>>]

\* A plausible slip: max_length is used whenever it is given.
RequestedNewTokens_max_length_wins(c) ==
    IF c.max_length # PyNone THEN c.max_length.v - c.length ELSE c.max_new_tokens.v

\* lines 1325-1326: max_new_tokens, filled in from max_length when missing
RequestedNewTokens(c) ==
    IF c.max_new_tokens = PyNone THEN c.max_length.v - c.length ELSE c.max_new_tokens.v

\* lines 1318-1351, on rank 0: the padded prompt tensor, the prompt lengths
\* and their sizes, or the ValueError of line 1328
PreparePrompts(c, add_BOS) ==
    LET inputs == InputIds(c.batch, c.length)
        lengths == IF ~c.attention_mask
                   THEN [b \in 1..c.batch |-> c.length]
                   ELSE [b \in 1..c.batch |-> SumSeq(PromptMask(c.batch, c.length)[b])]
        requested == RequestedNewTokens(c)
        bos == IF add_BOS THEN 1 ELSE 0
        max_length == 4 * CeilQuarter(requested + c.length + bos)
        max_new_tokens == max_length - (c.length + bos)
        padding == [i \in 1..max_new_tokens |-> Eod]
        row(b) == (IF add_BOS THEN <<padding[1]>> ELSE <<>>) \o inputs[b] \o padding
        tokens == [b \in 1..c.batch |-> row(b)]
    IN  IF requested <= 0
        THEN [raised |-> TRUE, prompts |-> NoPrompts]
        ELSE [raised |-> FALSE,
              prompts |-> [sizes_list |-> <<c.batch, Len(tokens[1])>>,
                           tokens |-> tokens, lengths |-> lengths]]

NoGeneration == [routine |-> None]

\* lines 1366-1388: the engine routine called, with its arguments
Generate(l, tokens, lengths) ==
    IF l.beam_width # PyNone
    THEN [routine |-> "beam_search_and_return_on_first_stage",
          tokens |-> tokens, lengths |-> lengths, beam_width |-> l.beam_width.v,
          stop_token |-> l.stop_token, num_return_gen |-> 1,
          length_penalty |-> l.length_penalty]
    ELSE [routine |-> "generate_tokens_probs_and_return_on_first_stage",
          tokens |-> tokens, lengths |-> lengths, top_k |-> l.top_k, top_p |-> l.top_p,
          top_p_decay |-> l.top_p_decay, top_p_bound |-> l.top_p_bound,
          temperature |-> l.temperature]

GenInit ==
    /\ \/ ConfigCall(gen_config, gen_call)
       \/ SamplingCall(gen_config, gen_call)
       \/ PromptCall(gen_config, gen_call)
    /\ gen_pc = [r \in Ranks |-> "start"]
    /\ gen_outcome = [r \in Ranks |-> NotCalled]
    /\ prompts = [r \in Ranks |-> NoPrompts]
    /\ broadcasts = [r \in Ranks |-> 0]
    /\ received = [r \in Ranks |-> NoPrompts]
    /\ generation = [r \in Ranks |-> NoGeneration]

GenIdle ==
    /\ gen_config = GoodConfig
    /\ gen_call = BaseCall
    /\ gen_pc = [r \in Ranks |-> "idle"]
    /\ gen_outcome = [r \in Ranks |-> NotCalled]
    /\ prompts = [r \in Ranks |-> NoPrompts]
    /\ broadcasts = [r \in Ranks |-> 0]
    /\ received = [r \in Ranks |-> NoPrompts]
    /\ generation = [r \in Ranks |-> NoGeneration]

NotGen == <<providerVars, maskVars, dataVars, engVars, callVars, wrapVars>>

\* rank r calls megatron_generate and runs to its exit or to the first
\* broadcast (lines 1246-1354)
GenBegin(r) ==
    /\ gen_pc[r] = "start"
    /\ LET v == Validate(gen_config, gen_call)
           p == IF v.kind = "ok" /\ r = 0
                THEN PreparePrompts(gen_call, v.locals.add_BOS)
                ELSE [raised |-> FALSE, prompts |-> NoPrompts]
       IN  IF v.kind # "ok"
           THEN /\ gen_outcome' = [gen_outcome EXCEPT ![r] = v]
                /\ gen_pc' = [gen_pc EXCEPT ![r] = IF v.kind = "raise" THEN "raised"
                                                   ELSE "returned"]
                /\ UNCHANGED <<prompts, broadcasts>>
           ELSE IF p.raised
           THEN /\ gen_outcome' = [gen_outcome EXCEPT ![r] =
                      Raise("ValueError", "max_new_tokens must be greater than 0")]
                /\ gen_pc' = [gen_pc EXCEPT ![r] = "raised"]
                /\ UNCHANGED <<prompts, broadcasts>>
           ELSE /\ gen_outcome' = [gen_outcome EXCEPT ![r] = v]
                /\ prompts' = [prompts EXCEPT ![r] = p.prompts]
                /\ broadcasts' = [broadcasts EXCEPT ![r] = 1]
                /\ gen_pc' = [gen_pc EXCEPT ![r] = "broadcast_sizes"]
    /\ UNCHANGED <<gen_config, gen_call, received, generation>>
    /\ UNCHANGED NotGen

\* a broadcast from rank 0 completes on a rank once every rank has joined it
BroadcastComplete(k) == \A q \in Ranks : broadcasts[q] >= k

\* broadcast_int_list completes (line 1354); the rank joins the broadcast of
\* the tokens (line 1359)
GenReceiveSizes(r) ==
    /\ gen_pc[r] = "broadcast_sizes"
    /\ BroadcastComplete(1)
    /\ received' = [received EXCEPT ![r].sizes_list = prompts[0].sizes_list]
    /\ broadcasts' = [broadcasts EXCEPT ![r] = 2]
    /\ gen_pc' = [gen_pc EXCEPT ![r] = "broadcast_tokens"]
    /\ UNCHANGED <<gen_config, gen_call, gen_outcome, prompts, generation>>
    /\ UNCHANGED NotGen

\* broadcast_tensor of the tokens completes (line 1359); the rank joins the
\* broadcast of the lengths (line 1360)
GenReceiveTokens(r) ==
    /\ gen_pc[r] = "broadcast_tokens"
    /\ BroadcastComplete(2)
    /\ received' = [received EXCEPT ![r].tokens = prompts[0].tokens]
    /\ broadcasts' = [broadcasts EXCEPT ![r] = 3]
    /\ gen_pc' = [gen_pc EXCEPT ![r] = "broadcast_lengths"]
    /\ UNCHANGED <<gen_config, gen_call, gen_outcome, prompts, generation>>
    /\ UNCHANGED NotGen

\* broadcast_tensor of the lengths completes (line 1360) and the generation
\* routine runs (lines 1363-1389)
GenReceiveLengthsAndRun(r) ==
    /\ gen_pc[r] = "broadcast_lengths"
    /\ BroadcastComplete(3)
    /\ received' = [received EXCEPT ![r].lengths = prompts[0].lengths]
    /\ generation' = [generation EXCEPT ![r] =
                         Generate(gen_outcome[r].locals, received[r].tokens,
                                  prompts[0].lengths)]
    /\ gen_pc' = [gen_pc EXCEPT ![r] = "done"]
    /\ UNCHANGED <<gen_config, gen_call, gen_outcome, prompts, broadcasts>>
    /\ UNCHANGED NotGen

(***************************************************************************)
(* MegatronEngine (lines 925-1211) on NumRanks ranks.  The training script *)
(* is SPMD: every rank is given the same sequence of calls (Issue), runs   *)
(* them in order at its own pace, and blocks only in                       *)
(* torch.distributed.barrier.  What the external engine returns (the       *)
(* skipped-iteration indicator, the number of microbatches, the losses)    *)
(* is an input of the step that calls it.                                  *)
(***************************************************************************)
Dirs == {"ckpt_a", "ckpt_b"}

\* the loss values the engine reports for one step
LossValues == {MaxLoss}

\* the calls a training script makes on the engine and its wrappers; a
\* forward call carries what the engine returns for it: the skipped-iteration
\* indicator of train_step, get_num_microbatches() (the same for every
\* step of a run), the reduced loss, and what training_log does when the
\* call reaches it
Ops ==
    {[op |-> o] : o \in {"train", "eval", "zero_grad", "optimizer_step", "scheduler_step"}}
    \cup {[op |-> "forward", skipped_iter |-> s, num_microbatches |-> n, loss |-> l,
            training_log |-> [adds |-> a, reports |-> f]] :
             s \in {0, 1}, n \in {MaxMicroBatches}, l \in LossValues,
             a \in BOOLEAN, f \in BOOLEAN}
    \cup {[op |-> o, dir |-> d] : o \in {"save_checkpoint", "load_checkpoint"}, d \in Dirs}

CheckpointOps == {"save_checkpoint", "load_checkpoint"}

\* a dict is its set of <<key, value>> pairs
DictKeys(d) == {kv[1] : kv \in d}
DictGet(d, k, default) == IF k \in DictKeys(d) THEN (CHOOSE kv \in d : kv[1] = k)[2]
                          ELSE default
DictPut(d, k, v) == {kv \in d : kv[1] # k} \cup {<<k, v>>}

\* key + "_num_iters" (lines 1144-1146)
NumItersKey(k) == k \o "_num_iters"
LossKey == "lm loss"

\* the keys of the loss dictionary a train step's loss function reports:
\* GPTTrainStep without and with args.return_logits (lines 698-700),
\* BertTrainStep in pretraining without and with the sentence order head
\* (lines 547, 542) and in finetuning (line 561), T5TrainStep (line 841)
LossKeySets == {{"lm loss"}, {"lm loss", "logits"}, {"lm loss", "sop loss"}, {"loss"}}

\* num_floating_point_operations(args, batch_size): linear in the batch size
FlopsPerSample == 3
num_floating_point_operations(batch_size) == FlopsPerSample * batch_size

\* what load_checkpoint returns for a directory holding no checkpoint
NoCheckpoint == [present |-> FALSE, iteration |-> 0,
                 num_floating_point_operations_so_far |-> 0]

\* MegatronEngine.__init__ (lines 936-965) on a module in mode `training`
NewEngine(training) ==
    [training |-> training,
     skipped_iter |-> FALSE,
     total_loss_dict |-> {},
     eval_total_loss_dict |-> {},
     report_memory_flag |-> TRUE,
     iteration |-> 0,
     num_floating_point_operations_so_far |-> 0,
     module_config |-> 0]

NewArgs == [consumed_train_samples |-> 0, consumed_valid_samples |-> 0,
            save |-> None, load |-> None]

NewHistory ==
    [last_skipped_iter |-> -1,       \* skipped_iter of the latest engine train_step
     train_steps |-> 0,              \* calls of the engine's train_step
     config_builds |-> 0,            \* calls of get_module_config
     reload_calls |-> 0,             \* calls of optimizer.reload_model_params
     checkpoint_calls |-> 0,         \* save_checkpoint/load_checkpoint calls that
                                     \* got to their first barrier
     peak_iteration |-> 0,           \* the largest self.iteration so far
     eval_forwards |-> {},           \* per loss key, the eval-mode forward calls that
                                     \* reported it since eval_total_loss_dict was
                                     \* last emptied
     saved |-> [d \in Dirs |-> NoCheckpoint]]   \* self.* at the latest save to d

EngInit ==
    \* the loss keys and args.log_params_norm are read with tensorboard_dir
    \* set only (lines 1119-1124, 1139-1146)
    /\ \E tb \in {None, "runs"}, half \in BOOLEAN, pp \in {1, NumRanks},
          keys \in LossKeySets, log_params_norm \in BOOLEAN :
          /\ tb = None => (keys = {LossKey} /\ ~log_params_norm)
          /\ tb # None => ~half
          /\ keys # {LossKey} => (pp = NumRanks /\ ~log_params_norm)
          /\ eng_config = [tensorboard_dir |-> tb, fp16 |-> half,
                           pipeline_last_stage |->
                               [r \in Ranks |-> pp = 1 \/ r = NumRanks - 1],
                           data_parallel_world_size |-> 1, micro_batch_size |-> 1,
                           loss_keys |-> keys, log_params_norm |-> log_params_norm]
    /\ engine = [r \in Ranks |-> NewEngine(TRUE)]
    /\ rank_args = [r \in Ranks |-> NewArgs]
    /\ history = [r \in Ranks |-> NewHistory]
    /\ eng_pc = [r \in Ranks |-> "idle"]
    /\ loaded = [r \in Ranks |-> NoCheckpoint]
    /\ pending = [r \in Ranks |-> <<>>]
    /\ issued = [forwards |-> 0, checkpoints |-> 0]
    /\ checkpoints = [d \in Dirs |-> NoCheckpoint]
    /\ arrived = {}
    /\ go = [r \in Ranks |-> FALSE]

EngIdle ==
    /\ eng_config = [tensorboard_dir |-> None, fp16 |-> FALSE,
                     pipeline_last_stage |-> [r \in Ranks |-> TRUE],
                     data_parallel_world_size |-> 1, micro_batch_size |-> 1,
                     loss_keys |-> {LossKey}, log_params_norm |-> FALSE]
    /\ engine = [r \in Ranks |-> NewEngine(TRUE)]
    /\ rank_args = [r \in Ranks |-> NewArgs]
    /\ history = [r \in Ranks |-> NewHistory]
    /\ eng_pc = [r \in Ranks |-> "unused"]
    /\ loaded = [r \in Ranks |-> NoCheckpoint]
    /\ pending = [r \in Ranks |-> <<>>]
    /\ issued = [forwards |-> 0, checkpoints |-> 0]
    /\ checkpoints = [d \in Dirs |-> NoCheckpoint]
    /\ arrived = {}
    /\ go = [r \in Ranks |-> FALSE]

\* line 1119: the logging branch of a training step is taken
LogsTrainingStep == eng_config.tensorboard_dir # None

NotEng == <<providerVars, maskVars, dataVars, genVars, callVars, wrapVars>>

\* the script makes its next call, on every rank
Issue(op) ==
    /\ \A r \in Ranks : eng_pc[r] \notin {"unused", "raised"} /\ Len(pending[r]) < MaxLag
    /\ op.op = "forward" => issued.forwards < MaxForwards
    \* what training_log does matters where a step reaches it (lines 1119-1125)
    /\ (op.op = "forward" /\ ~(LogsTrainingStep /\ ~eng_config.log_params_norm)) =>
          op.training_log = [adds |-> TRUE, reports |-> TRUE]
    /\ op.op \in CheckpointOps => issued.checkpoints < MaxCheckpoints
    /\ pending' = [r \in Ranks |-> Append(pending[r], op)]
    /\ issued' = [forwards |-> issued.forwards + (IF op.op = "forward" THEN 1 ELSE 0),
                  checkpoints |-> issued.checkpoints
                                    + (IF op.op \in CheckpointOps THEN 1 ELSE 0)]
    /\ UNCHANGED <<eng_config, engine, rank_args, history, eng_pc, loaded, checkpoints,
                   arrived, go>>
    /\ UNCHANGED NotEng

\* rank r is about to run the call `name`
Next_(r, name) == eng_pc[r] = "idle" /\ pending[r] # <<>> /\ Head(pending[r]).op = name

\* the call at the head of rank r's queue ran to its end in this step
Completed(r) ==
    /\ pending' = [pending EXCEPT ![r] = Tail(@)]
    /\ UNCHANGED <<eng_config, eng_pc, loaded, issued, checkpoints, arrived, go>>
    /\ UNCHANGED NotEng

\* A plausible slip: the configuration is rebuilt on every mode switch.
BuiltConfig_always(e, h) == h.config_builds + 1

\* get_module_config is called when module_config is None (lines 997-998,
\* 1006-1007); a built configuration is a positive number
BuiltConfig(e, h) == IF e.module_config = 0 THEN h.config_builds + 1 ELSE e.module_config
ConfigBuilds(e, h) == IF e.module_config = 0 THEN h.config_builds + 1 ELSE h.config_builds

\* the loss keys whose value is a tensor of several elements: the logits,
\* which eval_step concatenates over the microbatches (lines 700, 1093)
TensorKeys == {"logits"}

\* log_eval_results gets past its first test (line 1162) and value.item()
\* (line 1172) raises RuntimeError: the total of a key that is not a count
\* has more than one element
LogEvalRaises(e) ==
    /\ ~(eng_config.tensorboard_dir = None \/ e.iteration = 0)
    /\ \E k \in DictKeys(e.eval_total_loss_dict) : k \in TensorKeys

\* log_eval_results (lines 1160-1184): the engine after it ran, the totals
\* left as they are where it returns early or raises
log_eval_results(e) ==
    IF eng_config.tensorboard_dir = None \/ e.iteration = 0 \/ LogEvalRaises(e)
    THEN e
    ELSE [e EXCEPT !.eval_total_loss_dict = {}]

\* line 1184 is reached: log_eval_results empties the eval totals
EmptiesEvalTotals(e) ==
    ~(eng_config.tensorboard_dir = None \/ e.iteration = 0) /\ ~LogEvalRaises(e)

\* MegatronEngine.train (lines 993-1000), log_eval_results returning
Train(r) ==
    /\ Next_(r, "train")
    /\ ~LogEvalRaises(engine[r])
    /\ engine' = [engine EXCEPT ![r] =
                     log_eval_results([engine[r] EXCEPT
                         !.training = TRUE,
                         !.module_config = BuiltConfig(engine[r], history[r])])]
    /\ history' = [history EXCEPT
          ![r].config_builds = ConfigBuilds(engine[r], history[r]),
          ![r].eval_forwards = IF EmptiesEvalTotals(engine[r]) THEN {} ELSE @]
    /\ UNCHANGED rank_args
    /\ Completed(r)

\* MegatronEngine.train with log_eval_results raising (line 1000): the
\* modules are in train mode (lines 994-995) and the configuration is built
\* (lines 997-998) when the RuntimeError leaves the call, the totals are kept
TrainRaises(r) ==
    /\ Next_(r, "train")
    /\ LogEvalRaises(engine[r])
    /\ engine' = [engine EXCEPT ![r] =
                     [engine[r] EXCEPT
                         !.training = TRUE,
                         !.module_config = BuiltConfig(engine[r], history[r])]]
    /\ history' = [history EXCEPT ![r].config_builds = ConfigBuilds(engine[r], history[r])]
    /\ pending' = [pending EXCEPT ![r] = Tail(@)]
    /\ eng_pc' = [eng_pc EXCEPT ![r] = "raised"]
    /\ UNCHANGED <<eng_config, rank_args, loaded, issued, checkpoints, arrived, go>>
    /\ UNCHANGED NotEng

\* MegatronEngine.eval (lines 1002-1007)
Eval(r) ==
    /\ Next_(r, "eval")
    /\ engine' = [engine EXCEPT ![r] =
                     [engine[r] EXCEPT
                         !.training = FALSE,
                         !.module_config = BuiltConfig(engine[r], history[r])]]
    /\ history' = [history EXCEPT ![r].config_builds = ConfigBuilds(engine[r], history[r])]
    /\ UNCHANGED rank_args
    /\ Completed(r)

\* A plausible slip: the flag is set for any step that was not skipped.
SkippedFlag_inverted(skipped) == skipped = 0

\* line 1053: self.optimizer.skipped_iter = skipped_iter == 1
SkippedFlag(skipped) == skipped = 1

\* the batch size of one step (lines 1082, 1116)
BatchSize(num_microbatches) ==
    eng_config.data_parallel_world_size * eng_config.micro_batch_size * num_microbatches

\* the loss dictionary a step reports on rank r: on the final pipeline
\* stage the configured keys, "lm loss" with the given value, else nothing
\* (lines 1085-1095)
LossDict(r, loss) ==
    IF eng_config.pipeline_last_stage[r]
    THEN {<<k, IF k = LossKey THEN loss ELSE loss + MaxLoss>> : k \in eng_config.loss_keys}
    ELSE {}

\* A plausible slip: the count of a key is set to 1, not added to.
AddEvalLoss_count_reset(totals, kv) ==
    DictPut(DictPut(totals, kv[1], DictGet(totals, kv[1], 0) + kv[2]),
            NumItersKey(kv[1]), 1)

\* lines 1141-1146, for one key of loss_dict
AddEvalLoss(totals, kv) ==
    DictPut(DictPut(totals, kv[1], DictGet(totals, kv[1], 0) + kv[2]),
            NumItersKey(kv[1]), DictGet(totals, NumItersKey(kv[1]), 0) + 1)

RECURSIVE AddEvalLosses(_, _)
\* lines 1140-1146: the eval totals after every key of a loss dictionary is
\* added
AddEvalLosses(totals, loss_dict) ==
    IF loss_dict = {} THEN totals
    ELSE LET kv == CHOOSE kv \in loss_dict : TRUE
         IN  AddEvalLosses(AddEvalLoss(totals, kv), loss_dict \ {kv})

RECURSIVE AddLosses(_, _)
\* the losses of loss_dict added into total_loss_dict, key by key
AddLosses(loss_dict, total_loss_dict) ==
    IF loss_dict = {} THEN total_loss_dict
    ELSE LET kv == CHOOSE kv \in loss_dict : TRUE
         IN  AddLosses(loss_dict \ {kv},
                       DictPut(total_loss_dict, kv[1],
                               DictGet(total_loss_dict, kv[1], 0) + kv[2]))

\* megatron's training_log (lines 1125-1136) is not code of this module.  It
\* is handed self.total_loss_dict, which it leaves alone (a skipped step) or
\* adds the step's losses into, and it returns the report_memory_flag it was
\* given or False (memory was reported); which of these it does for a step
\* comes with the call: log.adds, log.reports
training_log(loss_dict, total_loss_dict, report_memory_flag, log) ==
    [total_loss_dict |-> IF log.adds THEN AddLosses(loss_dict, total_loss_dict)
                         ELSE total_loss_dict,
     report_memory_flag |-> IF log.reports THEN FALSE ELSE report_memory_flag]

\* A plausible slip: forward always takes the training branch.
RoutesToTrainStep_always(e) == TRUE

\* line 1113: if self.module[0].training
RoutesToTrainStep(e) == e.training

\* train_step and the counters of lines 1114-1118 on rank r; logged: the
\* call of training_log was reached (lines 1125-1136) and left one of its
\* outcomes
TrainingStep(r, logged) ==
    LET op == Head(pending[r])
        batch_size == BatchSize(op.num_microbatches)
        unlogged == [total_loss_dict |-> engine[r].total_loss_dict,
                     report_memory_flag |-> engine[r].report_memory_flag]
        log == IF logged
               THEN training_log(LossDict(r, op.loss), engine[r].total_loss_dict,
                                 engine[r].report_memory_flag, op.training_log)
               ELSE unlogged
    IN  /\ engine' = [engine EXCEPT
                 ![r].skipped_iter = SkippedFlag(op.skipped_iter),
                 ![r].iteration = @ + 1,
                 ![r].num_floating_point_operations_so_far =
                       @ + num_floating_point_operations(batch_size),
                 ![r].total_loss_dict = log.total_loss_dict,
                 ![r].report_memory_flag = log.report_memory_flag]
        /\ rank_args' = [rank_args EXCEPT ![r].consumed_train_samples = @ + batch_size]
        /\ history' = [history EXCEPT
              ![r].last_skipped_iter = op.skipped_iter,
              ![r].train_steps = @ + 1,
              ![r].peak_iteration = IF engine[r].iteration + 1 > @
                                    THEN engine[r].iteration + 1 ELSE @]

\* MegatronEngine.forward in train mode (lines 1113-1136, with train_step,
\* lines 1034-1055)
ForwardTrain(r) ==
    /\ Next_(r, "forward")
    /\ RoutesToTrainStep(engine[r])
    /\ ~(LogsTrainingStep /\ eng_config.log_params_norm)
    /\ TrainingStep(r, LogsTrainingStep)
    /\ Completed(r)

\* MegatronEngine.forward in train mode with tensorboard_dir and
\* args.log_params_norm set: after the step and the counters, line 1124
\* reads self.model, which the engine does not have, and the call ends
\* with AttributeError
ForwardTrainRaises(r) ==
    /\ Next_(r, "forward")
    /\ RoutesToTrainStep(engine[r])
    /\ LogsTrainingStep /\ eng_config.log_params_norm
    /\ TrainingStep(r, FALSE)
    /\ pending' = [pending EXCEPT ![r] = Tail(@)]
    /\ eng_pc' = [eng_pc EXCEPT ![r] = "raised"]
    /\ UNCHANGED <<eng_config, loaded, issued, checkpoints, arrived, go>>
    /\ UNCHANGED NotEng

\* MegatronEngine.forward in eval mode (lines 1137-1146, with eval_step,
\* lines 1057-1095)
ForwardEval(r) ==
    /\ Next_(r, "forward")
    /\ ~RoutesToTrainStep(engine[r])
    /\ LET op == Head(pending[r])
           loss_dict == LossDict(r, op.loss)
       IN  /\ engine' = [engine EXCEPT ![r].eval_total_loss_dict =
                            IF eng_config.tensorboard_dir # None
                            THEN AddEvalLosses(@, loss_dict) ELSE @]
           /\ rank_args' = [rank_args EXCEPT ![r].consumed_valid_samples =
                               @ + BatchSize(op.num_microbatches)]
           /\ history' = [history EXCEPT ![r].eval_forwards =
                             {<<k, DictGet(@, k, 0) + (IF k \in DictKeys(loss_dict)
                                                      THEN 1 ELSE 0)>> :
                                 k \in DictKeys(@) \cup DictKeys(loss_dict)}]
    /\ Completed(r)

\* MegatronLMOptimizerWrapper.zero_grad and .step (lines 372-376) and
\* MegatronLMSchedulerWrapper.step (lines 418-419): nothing happens
WrapperNoOp(r) ==
    /\ eng_pc[r] = "idle" /\ pending[r] # <<>>
    /\ Head(pending[r]).op \in {"zero_grad", "optimizer_step", "scheduler_step"}
    /\ UNCHANGED <<engine, rank_args, history>>
    /\ Completed(r)

\* MegatronLMOptimizerWrapper.step_was_skipped (lines 378-381)
step_was_skipped(r) == engine[r].skipped_iter

\* ---- torch.distributed.barrier ----
\* rank r enters a barrier: the last rank to enter releases every rank
Enter(r) ==
    IF arrived \cup {r} = Ranks
    THEN arrived' = {} /\ go' = [q \in Ranks |-> TRUE]
    ELSE arrived' = arrived \cup {r} /\ UNCHANGED go

\* torch.distributed.barrier() returns on rank r (lines 1190, 1198, 1205, 1207)
BarrierDone(r) == go[r]

\* rank r leaves the barrier and goes on to position pc
Leave(r, pc) ==
    /\ BarrierDone(r)
    /\ go' = [go EXCEPT ![r] = FALSE]
    /\ eng_pc' = [eng_pc EXCEPT ![r] = pc]
    /\ UNCHANGED arrived

\* A plausible slip: the FLOP count is not handed over and the engine stores 0.
SaveArguments_no_flops(e) ==
    [present |-> TRUE, iteration |-> e.iteration,
     num_floating_point_operations_so_far |-> 0]

\* lines 1191-1197: what save_checkpoint hands the engine
SaveArguments(e) ==
    [present |-> TRUE, iteration |-> e.iteration,
     num_floating_point_operations_so_far |-> e.num_floating_point_operations_so_far]

\* save_checkpoint with log_eval_results raising (line 1187): the
\* RuntimeError leaves the call before args.save is set (line 1189) and
\* before the first barrier (line 1190), the totals are kept
SaveBeginRaises(r) ==
    /\ Next_(r, "save_checkpoint")
    /\ LogEvalRaises(engine[r])
    /\ pending' = [pending EXCEPT ![r] = Tail(@)]
    /\ eng_pc' = [eng_pc EXCEPT ![r] = "raised"]
    /\ UNCHANGED <<eng_config, engine, rank_args, history, loaded, issued, checkpoints,
                   arrived, go>>
    /\ UNCHANGED NotEng

\* save_checkpoint up to its first barrier (lines 1187-1190), log_eval_results
\* returning
SaveBegin(r) ==
    /\ Next_(r, "save_checkpoint")
    /\ ~LogEvalRaises(engine[r])
    /\ engine' = [engine EXCEPT ![r] = log_eval_results(@)]
    /\ rank_args' = [rank_args EXCEPT ![r].save = Head(pending[r]).dir]
    /\ pending' = [pending EXCEPT ![r] = Tail(@)]
    /\ history' = [history EXCEPT
          ![r].checkpoint_calls = @ + 1,
          ![r].eval_forwards = IF EmptiesEvalTotals(engine[r]) THEN {} ELSE @]
    /\ eng_pc' = [eng_pc EXCEPT ![r] = "save_barrier1"]
    /\ Enter(r)
    /\ UNCHANGED <<eng_config, loaded, issued, checkpoints>>
    /\ UNCHANGED NotEng

\* the first barrier returns and the engine's save_checkpoint starts (line 1191)
SaveEngineStart(r) ==
    /\ eng_pc[r] = "save_barrier1"
    /\ Leave(r, "saving")
    /\ history' = [history EXCEPT ![r].saved[rank_args[r].save] =
          [present |-> TRUE, iteration |-> engine[r].iteration,
           num_floating_point_operations_so_far |->
               engine[r].num_floating_point_operations_so_far]]
    /\ UNCHANGED <<eng_config, engine, rank_args, loaded, pending, issued, checkpoints>>
    /\ UNCHANGED NotEng

\* the engine's save_checkpoint ends (rank 0 writes the checkpoint's iteration
\* and FLOP count) and the rank enters the second barrier (lines 1191-1198)
SaveEngineFinish(r) ==
    /\ eng_pc[r] = "saving"
    /\ checkpoints' = IF r = 0
                      THEN [checkpoints EXCEPT ![rank_args[r].save] = SaveArguments(engine[r])]
                      ELSE checkpoints
    /\ eng_pc' = [eng_pc EXCEPT ![r] = "save_barrier2"]
    /\ Enter(r)
    /\ UNCHANGED <<eng_config, engine, rank_args, history, loaded, pending, issued>>
    /\ UNCHANGED NotEng

\* the second barrier returns and save_checkpoint returns (line 1198)
SaveReturn(r) ==
    /\ eng_pc[r] = "save_barrier2"
    /\ Leave(r, "idle")
    /\ UNCHANGED <<eng_config, engine, rank_args, history, loaded, pending, issued,
                   checkpoints>>
    /\ UNCHANGED NotEng

\* load_checkpoint up to its first barrier (lines 1201-1205)
LoadBegin(r) ==
    /\ Next_(r, "load_checkpoint")
    /\ rank_args' = [rank_args EXCEPT ![r].load = Head(pending[r]).dir,
                                      ![r].consumed_train_samples = 0,
                                      ![r].consumed_valid_samples = 0]
    /\ pending' = [pending EXCEPT ![r] = Tail(@)]
    /\ history' = [history EXCEPT ![r].checkpoint_calls = @ + 1]
    /\ eng_pc' = [eng_pc EXCEPT ![r] = "load_barrier1"]
    /\ Enter(r)
    /\ UNCHANGED <<eng_config, engine, loaded, issued, checkpoints>>
    /\ UNCHANGED NotEng

\* the first barrier returns and the engine's load_checkpoint starts (line 1206)
LoadEngineStart(r) ==
    /\ eng_pc[r] = "load_barrier1"
    /\ Leave(r, "loading")
    /\ UNCHANGED <<eng_config, engine, rank_args, history, loaded, pending, issued,
                   checkpoints>>
    /\ UNCHANGED NotEng

\* the engine's load_checkpoint returns what the directory holds and the rank
\* enters the second barrier (lines 1206-1207)
LoadEngineFinish(r) ==
    /\ eng_pc[r] = "loading"
    /\ loaded' = [loaded EXCEPT ![r] = checkpoints[rank_args[r].load]]
    /\ eng_pc' = [eng_pc EXCEPT ![r] = "load_barrier2"]
    /\ Enter(r)
    /\ UNCHANGED <<eng_config, engine, rank_args, history, pending, issued, checkpoints>>
    /\ UNCHANGED NotEng

\* A plausible slip: the parameters are reloaded after every fp16 load.
ReloadsModelParams_any_iteration(fp16, iteration) == fp16

\* line 1210: if args.fp16 and self.iteration == 0
ReloadsModelParams(fp16, iteration) == fp16 /\ iteration = 0

\* the second barrier returns; the counters are set and, under fp16 at
\* iteration 0, the parameters reloaded (lines 1207-1211)
LoadReturn(r) ==
    /\ eng_pc[r] = "load_barrier2"
    /\ Leave(r, "idle")
    /\ engine' = [engine EXCEPT
          ![r].iteration = loaded[r].iteration,
          ![r].num_floating_point_operations_so_far =
                loaded[r].num_floating_point_operations_so_far]
    /\ history' = [history EXCEPT
          ![r].reload_calls = IF ReloadsModelParams(eng_config.fp16, loaded[r].iteration)
                              THEN @ + 1 ELSE @]
    /\ UNCHANGED <<eng_config, rank_args, loaded, pending, issued, checkpoints>>
    /\ UNCHANGED NotEng

(***************************************************************************)
(* MegatronEngine.eval_step (lines 1057-1095), one call on one rank.  The  *)
(* engine's forward-only runner hands back one loss dictionary per         *)
(* microbatch on the final pipeline stage and an empty list elsewhere.     *)
(***************************************************************************)
NoCallMade == [function |-> None]
NoResult == [done |-> FALSE]

CallIdle == call = NoCallMade /\ result = NoResult

NotCall == <<providerVars, maskVars, dataVars, genVars, engVars, wrapVars>>

\* a 0-dimensional tensor and a 1-dimensional tensor
Scalar(v) == [dim |-> 0, data |-> <<v>>]
Vector(xs) == [dim |-> 1, data |-> xs]
\* the result of a true division of 0-dimensional tensors
Quotient(n, d) == [dim |-> 0, num |-> n, den |-> d]

\* the loss dictionaries a forward step may report for one microbatch
MicrobatchLosses(keys, loss, logit) ==
    (IF "lm loss" \in keys THEN {<<"lm loss", Scalar(loss)>>} ELSE {})
    \cup (IF "logits" \in keys THEN {<<"logits", Vector(<<logit, logit + 10>>)>>} ELSE {})

RECURSIVE ConcatAll(_)
\* torch.concat of a list of 1-dimensional tensors
ConcatAll(ts) == IF ts = <<>> THEN <<>> ELSE Head(ts).data \o ConcatAll(Tail(ts))

\* A plausible slip: the sum over the microbatches is not divided.
AverageOverMicrobatches_sum(xs) ==
    Quotient(SumSeq([i \in 1..Len(xs) |-> xs[i].data[1]]), 1)

\* line 1091: sum(losses_reduced_for_key) / len(losses_reduced_for_key)
AverageOverMicrobatches(xs) ==
    Quotient(SumSeq([i \in 1..Len(xs) |-> xs[i].data[1]]), Len(xs))

\* lines 1085-1095: what eval_step returns, or the KeyError of x[key]
\* (line 1089) when a microbatch lacks a key of the first one
ReduceLosses(is_pipeline_last_stage, loss_dicts) ==
    IF ~is_pipeline_last_stage THEN [raised |-> None, returned |-> {}]
    ELSE IF \E key \in DictKeys(loss_dicts[1]), i \in 1..Len(loss_dicts) :
               key \notin DictKeys(loss_dicts[i])
    THEN [raised |-> "KeyError", returned |-> {}]
    ELSE [raised |-> None,
          returned |->
             {<<key, LET losses_reduced_for_key ==
                             [i \in 1..Len(loss_dicts) |->
                                 DictGet(loss_dicts[i], key, Scalar(0))]
                     IN  IF losses_reduced_for_key[1].dim = 0
                         THEN AverageOverMicrobatches(losses_reduced_for_key)
                         ELSE Vector(ConcatAll(losses_reduced_for_key))>>
                : key \in DictKeys(loss_dicts[1])}]

\* lines 1081-1083: the samples one eval step consumes
EvalSamples(c) == c.data_parallel_world_size * c.micro_batch_size * c.num_microbatches

\* one eval_step call: the runner (lines 1067-1075) hands back one loss
\* dictionary per microbatch on the final stage, all with the keys of the one
\* loss function of the step
EvalStepInit ==
    /\ \E last \in BOOLEAN, n \in 1..MaxMicroBatches, dp \in 1..MaxDataParallel,
          mbs \in 1..MaxMicroBatchSize, before \in {0, 5},
          keys \in SUBSET {"lm loss", "logits"} :
          \E loss \in [1..n -> 0..MaxLoss], logit \in [1..n -> 0..1] :
             call = [function |-> "eval_step",
                     is_pipeline_last_stage |-> last,
                     num_microbatches |-> n,
                     data_parallel_world_size |-> dp,
                     micro_batch_size |-> mbs,
                     consumed_valid_samples |-> before,
                     loss_dicts |-> IF last
                                    THEN [i \in 1..n |->
                                            MicrobatchLosses(keys, loss[i], logit[i])]
                                    ELSE <<>>]
    /\ result = NoResult

\* MegatronEngine.eval_step, the whole call
CallEvalStep ==
    /\ call.function = "eval_step"
    /\ ~result.done
    /\ LET r == ReduceLosses(call.is_pipeline_last_stage, call.loss_dicts)
       IN  result' = [done |-> TRUE, raised |-> r.raised, returned |-> r.returned,
                      consumed_valid_samples |->
                         call.consumed_valid_samples + EvalSamples(call)]
    /\ UNCHANGED call
    /\ UNCHANGED NotCall

(***************************************************************************)
(* get_batch_func of BertTrainStep (lines 465-527), GPTTrainStep (lines    *)
(* 614-668) and T5TrainStep (lines 770-831): which batch decoder a         *)
(* train-step object gets at construction.                                 *)
(***************************************************************************)
TrainStepClasses == {"BertTrainStep", "GPTTrainStep", "T5TrainStep"}

\* the optional module each class tries to import get_batch from
PretrainModule(class) ==
    CASE class = "BertTrainStep" -> "pretrain_bert"
      [] class = "GPTTrainStep" -> "pretrain_gpt"
      [] class = "T5TrainStep" -> "pretrain_t5"

\* megatron_lm_plugin.custom_get_batch_function: None or a user function
CustomGetBatchFunctions == {None, "user_get_batch_a", "user_get_batch_b", "user_get_batch_c"}

\* what the import statement does: the module is there, or it is absent
ImportOutcomes == {"imported", "ImportError", "ModuleNotFoundError"}

\* the functions get_batch_func can return
CustomGetBatch(f) == [kind |-> "custom", name |-> f]
ExternalGetBatch(module) == [kind |-> "external", name |-> module]
BuiltinGetBatch(class, name) == [kind |-> "builtin", name |-> name, class |-> class]

\* A plausible slip: the native-dataset flag is looked at before the override.
get_batch_func_flag_first(class, custom, dataset_flag, import_outcome) ==
    IF dataset_flag
    THEN IF import_outcome = "imported"
         THEN [returned |-> ExternalGetBatch(PretrainModule(class)), imports |-> 1]
         ELSE [returned |-> BuiltinGetBatch(class, "get_batch_megatron"), imports |-> 1]
    ELSE IF custom # None
    THEN [returned |-> CustomGetBatch(custom), imports |-> 0]
    ELSE [returned |-> BuiltinGetBatch(class, "get_batch_transformer"), imports |-> 0]

\* lines 515-527, 656-668, 819-831: the function returned and the number of
\* import attempts made
get_batch_func(class, custom, dataset_flag, import_outcome) ==
    IF custom # None
    THEN [returned |-> CustomGetBatch(custom), imports |-> 0]
    ELSE IF dataset_flag
    THEN IF import_outcome = "imported"
         THEN [returned |-> ExternalGetBatch(PretrainModule(class)), imports |-> 1]
         ELSE [returned |-> BuiltinGetBatch(class, "get_batch_megatron"), imports |-> 1]
    ELSE [returned |-> BuiltinGetBatch(class, "get_batch_transformer"), imports |-> 0]

GetBatchInit ==
    /\ \E class \in TrainStepClasses, custom \in CustomGetBatchFunctions,
          flag \in BOOLEAN, outcome \in ImportOutcomes :
          call = [function |-> "get_batch_func", class |-> class,
                  custom_get_batch_function |-> custom,
                  megatron_dataset_flag |-> flag, import_outcome |-> outcome]
    /\ result = NoResult

\* get_batch_func, the whole call
CallGetBatchFunc ==
    /\ call.function = "get_batch_func"
    /\ ~result.done
    /\ LET r == get_batch_func(call.class, call.custom_get_batch_function,
                               call.megatron_dataset_flag, call.import_outcome)
       IN  result' = [done |-> TRUE, raised |-> None, returned |-> r.returned,
                      imports |-> r.imports]
    /\ UNCHANGED call
    /\ UNCHANGED NotCall

(***************************************************************************)
(* MegatronLMOptimizerWrapper (lines 368-381) and                          *)
(* MegatronLMSchedulerWrapper (lines 414-419) around the engine's          *)
(* optimizer and scheduler.  The engine's train_step sets the optimizer's  *)
(* skipped-step flag (line 1053).                                          *)
(***************************************************************************)
\* the wrapped objects as the engine's constructor leaves them (line 955)
NewWrapped ==
    [optimizer |-> [skipped_iter |-> FALSE, zero_grad_calls |-> 0, step_calls |-> 0],
     scheduler |-> [step_calls |-> 0]]

NoWrapperCall == [zero_grad |-> 0, step |-> 0, scheduler_step |-> 0,
                  last |-> None, argument |-> PyNone]

\* the arguments a caller may pass: set_to_none of zero_grad, *args of the
\* scheduler's step
WrapperArguments == {PyNone, [class |-> "bool", v |-> TRUE], PyInt(1)}

WrapInit == wrapped = NewWrapped /\ wrapper_calls = NoWrapperCall
WrapIdle == wrapped = NewWrapped /\ wrapper_calls = [NoWrapperCall EXCEPT !.last = "unused"]

NotWrap == <<providerVars, maskVars, dataVars, genVars, engVars, callVars>>

\* What AcceleratedOptimizer.zero_grad does and the wrapper must not: hand the
\* call on to the wrapped optimizer.
ZeroGradEffect_delegates(w, set_to_none) ==
    [w EXCEPT !.optimizer.zero_grad_calls = @ + 1]

\* MegatronLMOptimizerWrapper.zero_grad (lines 372-373): pass
ZeroGradEffect(w, set_to_none) == w

\* MegatronLMOptimizerWrapper.step (lines 375-376): pass
OptimizerStepEffect(w) == w

\* MegatronLMSchedulerWrapper.step (lines 418-419): return
SchedulerStepEffect(w, args) == w

WrapperZeroGrad(set_to_none) ==
    /\ wrapper_calls.last # "unused"
    /\ wrapper_calls.zero_grad < MaxWrapperCalls
    /\ wrapped' = ZeroGradEffect(wrapped, set_to_none)
    /\ wrapper_calls' = [wrapper_calls EXCEPT !.zero_grad = @ + 1, !.last = "zero_grad",
                                              !.argument = set_to_none]
    /\ UNCHANGED NotWrap

WrapperStep ==
    /\ wrapper_calls.last # "unused"
    /\ wrapper_calls.step < MaxWrapperCalls
    /\ wrapped' = OptimizerStepEffect(wrapped)
    /\ wrapper_calls' = [wrapper_calls EXCEPT !.step = @ + 1, !.last = "step",
                                              !.argument = PyNone]
    /\ UNCHANGED NotWrap

SchedulerWrapperStep(args) ==
    /\ wrapper_calls.last # "unused"
    /\ wrapper_calls.scheduler_step < MaxWrapperCalls
    /\ wrapped' = SchedulerStepEffect(wrapped, args)
    /\ wrapper_calls' = [wrapper_calls EXCEPT !.scheduler_step = @ + 1,
                                              !.last = "scheduler_step",
                                              !.argument = args]
    /\ UNCHANGED NotWrap

\* the engine's train_step sets the flag (line 1053)
TrainStepSetsFlag(skipped) ==
    /\ wrapper_calls.last # "unused"
    /\ wrapped' = [wrapped EXCEPT !.optimizer.skipped_iter = SkippedFlag(skipped)]
    /\ wrapper_calls' = [wrapper_calls EXCEPT !.last = "train_step", !.argument = PyNone]
    /\ UNCHANGED NotWrap

(***************************************************************************)
(* GPTTrainStep.get_batch_func (lines 614-668): the two batch decoders of  *)
(* the decoder-only model.  A tensor of shape [B, L] is a sequence of B    *)
(* rows, each a sequence of L token ids.                                   *)
(***************************************************************************)
\* the token ids of a batch, the end-of-document token among them
TokenIds == {Eod, 1, 2}

\* row[1:] and row[:-1]
\* A plausible slip: the labels are not shifted.
FromSecond_unshifted(row) == SubSeq(row, 1, Len(row) - 1)
FromSecond(row) == SubSeq(row, 2, Len(row))
UpToLast(row) == SubSeq(row, 1, Len(row) - 1)

\* lines 615-639, get_batch_megatron: tokens_ = data_b["text"]
get_batch_megatron(text) ==
    [tokens |-> [b \in 1..Len(text) |-> UpToLast(text[b])],
     labels |-> [b \in 1..Len(text) |-> FromSecond(text[b])]]

\* lines 641-654, get_batch_transformer: one end-of-document token is
\* appended to every row of input_ids, then the same two slices
get_batch_transformer(input_ids, eod_token) ==
    LET tokens_ == [b \in 1..Len(input_ids) |-> input_ids[b] \o <<eod_token>>]
    IN  [tokens |-> [b \in 1..Len(tokens_) |-> UpToLast(tokens_[b])],
         labels |-> [b \in 1..Len(tokens_) |-> FromSecond(tokens_[b])]]

\* the tensors of shape [B, L]
Tensors(B, L) == [1..B -> [1..L -> TokenIds]]

GPTBatchInit ==
    /\ \E B \in 1..MaxBatch, L \in 0..MaxSeq, flag \in BOOLEAN :
          \E data \in Tensors(B, L) :
             call = [function |-> "gpt_get_batch", megatron_dataset_flag |-> flag,
                     data |-> data, eod_token |-> Eod]
    /\ result = NoResult

\* the batch decoder that get_batch_func returns for megatron_dataset_flag
\* (lines 656-668, no override and no external module), called once
CallGPTGetBatch ==
    /\ call.function = "gpt_get_batch"
    /\ ~result.done
    /\ LET r == IF call.megatron_dataset_flag
                THEN get_batch_megatron(call.data)
                ELSE get_batch_transformer(call.data, call.eod_token)
       IN  result' = [done |-> TRUE, raised |-> None, tokens |-> r.tokens,
                      labels |-> r.labels]
    /\ UNCHANGED call
    /\ UNCHANGED NotCall

(***************************************************************************)
(* GPTTrainStep.get_loss_func (lines 670-705): loss_func for one           *)
(* microbatch on one rank.  The other ranks of the context-parallel and    *)
(* data-parallel groups appear as what they contribute to the all-reduce.  *)
(***************************************************************************)
\* float values: not-a-number, infinity, and the quotient num / den
NaN == [kind |-> "nan"]
Inf == [kind |-> "inf"]
Num(n, d) == [kind |-> "num", num |-> n, den |-> d]

\* the per-token losses of a microbatch: an integer, or NaN
TokenLosses == {Num(0, 1), Num(1, 1), Num(2, 1), NaN}
MaxTokens == 2

RECURSIVE MaskedSum(_, _)
\* torch.sum(losses.view(-1) * loss_mask): NaN * 0 is NaN
MaskedSum(losses, loss_mask) ==
    IF losses = <<>> THEN Num(0, 1)
    ELSE LET rest == MaskedSum(Tail(losses), Tail(loss_mask))
         IN  IF Head(losses).kind = "nan" \/ rest.kind = "nan" THEN NaN
             ELSE Num(Head(losses).num * Head(loss_mask) + rest.num, 1)

\* x + y of two sums, as the all-reduce adds them
Plus(x, y) ==
    IF x.kind = "nan" \/ y.kind = "nan" THEN NaN ELSE Num(x.num + y.num, 1)

\* sum / count for a count >= 0: 0 / 0 is NaN, x / 0 is infinity
Over(sum, count) ==
    IF sum.kind = "nan" THEN NaN
    ELSE IF count = 0 THEN (IF sum.num = 0 THEN NaN ELSE Inf)
    ELSE Num(sum.num, count)

\* what the other ranks of the context-parallel group add to [sum, count]
ContextPeers == {[sum |-> Num(0, 1), count |-> 0], [sum |-> Num(2, 1), count |-> 1],
                 [sum |-> NaN, count |-> 1]}
\* what the one other rank of the data-parallel group contributes, if any
DataPeers == {Absent, Num(0, 1), Num(2, 1), NaN}

\* lines 680-685: the local loss
LocalLoss(c) ==
    IF c.context_parallel_size > 1
    THEN Over(Plus(MaskedSum(c.losses, c.loss_mask), c.context_peer.sum),
              SumSeq(c.loss_mask) + c.context_peer.count)
    ELSE Over(MaskedSum(c.losses, c.loss_mask), SumSeq(c.loss_mask))

\* average_losses_across_data_parallel_group([loss])[0]: the all-reduced sum
\* over the data-parallel group, divided by the group's size
AveragedLoss(loss, peer) ==
    IF peer = Absent THEN loss
    ELSE IF loss.kind = "nan" \/ peer.kind = "nan" THEN NaN
    ELSE IF loss.kind = "inf" THEN Inf
    ELSE Num(loss.num * peer.den + peer.num * loss.den, 2 * loss.den * peer.den)

\* A plausible slip: the averaged loss is handed back for backpropagation.
ReturnedLoss_averaged(loss, averaged_loss) == averaged_loss
\* line 700: return loss, output_dict
ReturnedLoss(loss, averaged_loss) == loss

\* loss_func blocked in the all-reduce of a group: the collectives issued so
\* far in their order, and what this rank put into the data-parallel one
WaitingIn(group, collectives, contributed) ==
    [done |-> FALSE, waiting |-> group, collectives |-> collectives,
     contributed |-> contributed]

\* lines 683-696, from the local loss to the next collective: the assertion
\* of the NaN check fails, or the data-parallel averaging is entered
AfterLocalLoss(collectives) ==
    LET loss == LocalLoss(call)
    IN  IF call.check_for_nan_in_loss_and_grad /\ loss.kind = "nan"
        THEN result' = [done |-> TRUE, raised |-> "AssertionError",
                        collectives |-> collectives,
                        contributed |-> Absent, returned |-> Absent]
        ELSE result' = WaitingIn("data_parallel", collectives \o <<"data_parallel">>,
                                 loss)

GPTLossInit ==
    /\ \E check \in BOOLEAN, cp \in 1..2, return_logits \in BOOLEAN,
          n \in 1..MaxTokens, data_peer \in DataPeers, context_peer \in ContextPeers :
          \E losses \in [1..n -> TokenLosses], loss_mask \in [1..n -> 0..1] :
             call = [function |-> "gpt_loss_func",
                     check_for_nan_in_loss_and_grad |-> check,
                     context_parallel_size |-> cp,
                     return_logits |-> return_logits,
                     losses |-> losses, loss_mask |-> loss_mask, logits |-> 7,
                     context_peer |-> IF cp > 1 THEN context_peer
                                      ELSE [sum |-> Num(0, 1), count |-> 0],
                     data_peer |-> data_peer]
    /\ result = NoResult

\* loss_func is called (lines 673-682): with context parallelism it enters
\* the all-reduce of the context-parallel group, without it goes on from the
\* local loss
CallGPTLossFunc ==
    /\ call.function = "gpt_loss_func"
    /\ result = NoResult
    /\ IF call.context_parallel_size > 1
       THEN result' = WaitingIn("context_parallel", <<"context_parallel">>, Absent)
       ELSE AfterLocalLoss(<<>>)
    /\ UNCHANGED call
    /\ UNCHANGED NotCall

\* the all-reduce of line 682 returns: lines 683-696
ContextAllReduceReturns ==
    /\ call.function = "gpt_loss_func"
    /\ ~result.done /\ result # NoResult /\ result.waiting = "context_parallel"
    /\ AfterLocalLoss(result.collectives)
    /\ UNCHANGED call
    /\ UNCHANGED NotCall

\* the averaging of line 696 returns: lines 698-701
DataAllReduceReturns ==
    /\ call.function = "gpt_loss_func"
    /\ ~result.done /\ result # NoResult /\ result.waiting = "data_parallel"
    /\ LET loss == result.contributed
           averaged_loss == AveragedLoss(loss, call.data_peer)
       IN  result' = [done |-> TRUE, raised |-> None,
                      collectives |-> result.collectives,
                      contributed |-> loss,
                      returned |-> [loss |-> ReturnedLoss(loss, averaged_loss),
                                    output_dict |->
                                       {<<"lm loss", averaged_loss>>}
                                       \cup (IF call.return_logits
                                             THEN {<<"logits", call.logits>>}
                                             ELSE {})]]
    /\ UNCHANGED call
    /\ UNCHANGED NotCall

(***************************************************************************)
(* MegatronEngine.get_batch_data_iterator (lines 1009-1032), one call, and *)
(* the next() calls the pipeline schedule makes on what it returned.  A    *)
(* batch is a dict from field names to tensors, a tensor a sequence of     *)
(* rows.                                                                   *)
(***************************************************************************)
MaxRows == 5
MaxModelChunks == 3

\* the batches: every field has the same rows, tagged by the field
BatchFields == {"input_ids", "labels"}
FieldTag(k) == IF k = "input_ids" THEN 10 ELSE 20
BatchData(fields, rows) == {<<k, [j \in 1..rows |-> FieldTag(k) + j]>> : k \in fields}

\* A plausible slip: the slice takes its upper bound in.
PySlice_inclusive(v, lo, hi) ==
    SubSeq(v, lo + 1, IF hi + 1 < Len(v) THEN hi + 1 ELSE Len(v))
\* v[lo:hi] for 0 <= lo <= hi: the rows lo .. hi - 1 that v has
PySlice(v, lo, hi) ==
    SubSeq(v, lo + 1, IF hi < Len(v) THEN hi ELSE Len(v))

\* lines 1011-1022: data_chunks
data_chunks(batch_data, n, mbs) ==
    IF batch_data = {} THEN <<>>
    ELSE IF n > 1
    THEN [c \in 1..n |->
             {<<kv[1], PySlice(kv[2], (c - 1) * mbs, c * mbs)>> : kv \in batch_data}]
    ELSE <<batch_data>>

\* iter(data_chunks): every call makes a new iterator, known by its number
ListIterator(id) == [class |-> "list_iterator", id |-> id]

\* lines 1024-1032: the value returned for a given number of model chunks
batch_data_iterator(batch_data, modules) ==
    IF modules > 1
    THEN IF batch_data # {}
         THEN [class |-> "list", items |-> [m \in 1..modules |-> ListIterator(m)]]
         ELSE [class |-> "list", items |-> [m \in 1..modules |-> PyNone]]
    ELSE IF batch_data # {} THEN ListIterator(1) ELSE PyNone

\* the iterator handed to model chunk m
IteratorOf(returned, m) == IF returned.class = "list" THEN returned.items[m] ELSE returned

BatchIteratorInit ==
    /\ \E fields \in SUBSET BatchFields, rows \in 0..MaxRows,
          n \in 0..MaxNumMicroBatches, mbs \in 1..MaxMicroBatchSize,
          modules \in 1..MaxModelChunks :
          call = [function |-> "get_batch_data_iterator",
                  batch_data |-> BatchData(fields, IF fields = {} THEN 0 ELSE rows),
                  num_micro_batches |-> n, micro_batch_size |-> mbs,
                  modules |-> modules]
    /\ result = NoResult

\* get_batch_data_iterator, the whole call: the chunks built, the value
\* returned, the position of every iterator made, and (nothing yet) what
\* each model chunk has drawn
CallGetBatchDataIterator ==
    /\ call.function = "get_batch_data_iterator"
    /\ ~result.done
    /\ LET chunks == data_chunks(call.batch_data, call.num_micro_batches,
                                 call.micro_batch_size)
           returned == batch_data_iterator(call.batch_data, call.modules)
       IN  result' = [done |-> TRUE, raised |-> None,
                      data_chunks |-> chunks,
                      returned |-> returned,
                      position |-> [id \in 1..call.modules |-> 0],
                      yielded |-> [m \in 1..call.modules |-> <<>>]]
    /\ UNCHANGED call
    /\ UNCHANGED NotCall

\* next() on the iterator of model chunk m, while it has chunks left
NextChunk(m) ==
    /\ call.function = "get_batch_data_iterator"
    /\ result.done
    /\ m \in 1..call.modules
    /\ LET it == IteratorOf(result.returned, m)
       IN  /\ it # PyNone
           /\ result.position[it.id] < Len(result.data_chunks)
           /\ result' = [result EXCEPT
                 !.position[it.id] = @ + 1,
                 !.yielded[m] = Append(@, result.data_chunks[result.position[it.id] + 1])]
    /\ UNCHANGED call
    /\ UNCHANGED NotCall

(***************************************************************************)
(* BertTrainStep (lines 452-463) and the fine-tuning loss function that    *)
(* its get_loss_func returns (lines 549-561), one call on one rank.        *)
(***************************************************************************)
MaxLabels == 3

\* the instance attributes BertTrainStep.__init__ (with
\* AbstractTrainStep.__init__, lines 431-433) sets on self
BertTrainStepAttributes ==
    {"name", "get_batch", "loss_func", "forward_step", "model_output_class"}

LabelDtypes == {"torch.long", "torch.int", "torch.float"}

\* what the call of a loss module on (logits, labels) gives back
LossOf(loss_fct, logits_shape) == [loss_fct |-> loss_fct, logits |-> logits_shape]

\* lines 549-561, loss_func_finetune: n_labels is the closure's num_labels,
\* self.num_labels an attribute lookup on the train-step object
loss_func_finetune(n_labels, labels_dtype, attributes) ==
    IF n_labels = 1
    THEN [raised |-> None, loss |-> LossOf("MSELoss", "view(-1)"),
          output_keys |-> {"loss"}, averaged |-> 1]
    ELSE IF "num_labels" \notin attributes
    THEN [raised |-> "AttributeError", loss |-> Absent, output_keys |-> {}, averaged |-> 0]
    ELSE IF n_labels > 1 /\ labels_dtype \in {"torch.long", "torch.int"}
    THEN [raised |-> None, loss |-> LossOf("CrossEntropyLoss", "view(-1, num_labels)"),
          output_keys |-> {"loss"}, averaged |-> 1]
    ELSE [raised |-> None, loss |-> LossOf("BCEWithLogitsLoss", "logits"),
          output_keys |-> {"loss"}, averaged |-> 1]

BertLossInit ==
    /\ \E n \in 1..MaxLabels, dtype \in LabelDtypes, B \in 1..MaxBatch,
          model_return_dict \in BOOLEAN :
          \E labels \in [1..B -> 0..1] :
             call = [function |-> "loss_func_finetune", num_labels |-> n,
                     labels_dtype |-> dtype, labels |-> labels,
                     model_return_dict |-> model_return_dict,
                     attributes |-> BertTrainStepAttributes]
    /\ result = NoResult

\* loss_func_finetune, the whole call
CallLossFuncFinetune ==
    /\ call.function = "loss_func_finetune"
    /\ ~result.done
    /\ LET r == loss_func_finetune(call.num_labels, call.labels_dtype, call.attributes)
       IN  result' = [done |-> TRUE, raised |-> r.raised, loss |-> r.loss,
                      output_keys |-> r.output_keys, averaged |-> r.averaged]
    /\ UNCHANGED call
    /\ UNCHANGED NotCall

(***************************************************************************)
(* MegatronEngine.get_module_config (lines 967-991), one call, and the     *)
(* calls the pipeline schedule then makes of the parameter-sync callbacks  *)
(* it installed.  Model chunks and callbacks are numbered from 0.          *)
(***************************************************************************)
MaxSyncCalls == 2

\* a bound method of model chunk i
BoundMethod(name, i) == [class |-> "method", name |-> name, self |-> i]

\* the list a comprehension over the model chunks built, unwrapped when
\* there is one chunk only (lines 977-979, 981-983, 988-989)
PerChunk(items) ==
    IF Len(items) = 1 THEN items[1] ELSE [class |-> "list", items |-> items]

\* lambda x: self.optimizer.finish_param_sync(model_index, x): the function
\* refers to the comprehension's variable, it holds no copy of its value
ParamSyncLambda(i) == [class |-> "function", freevar |-> "model_index"]

\* the comprehension's variable once range(len(self.module)) is exhausted
model_index_after_loop(modules) == modules - 1

\* lines 967-991: the configuration get_module_config returns
get_module_config(c) ==
    LET overlap_grad == c.local_ddp /\ c.overlap_grad_reduce
        param_sync == c.overlap_param_gather /\ c.delay_param_gather
        no_sync == [i \in 1..c.modules |-> BoundMethod("no_sync", i - 1)]
        grad_sync == [i \in 1..c.modules |-> BoundMethod("start_grad_sync", i - 1)]
        lambdas == [i \in 1..c.modules |-> ParamSyncLambda(i - 1)]
    IN  [grad_scale_func |-> "optimizer.scale_loss",
         no_sync_func |-> IF overlap_grad THEN PerChunk(no_sync) ELSE PyNone,
         grad_sync_func |-> IF overlap_grad /\ c.delay_grad_reduce
                            THEN PerChunk(grad_sync) ELSE PyNone,
         param_sync_func |-> IF param_sync THEN PerChunk(lambdas)
                             ELSE PyNone,
         finalize_model_grads_func |-> "finalize_model_grads"]

\* the i-th callback of a configuration field
Callback(field, i) == IF field.class = "list" THEN field.items[i + 1] ELSE field

ModuleConfigInit ==
    /\ \E modules \in 1..MaxModelChunks, local_ddp \in BOOLEAN,
          overlap_grad_reduce \in BOOLEAN, delay_grad_reduce \in BOOLEAN,
          overlap_param_gather \in BOOLEAN, delay_param_gather \in BOOLEAN :
          call = [function |-> "get_module_config", modules |-> modules,
                  local_ddp |-> local_ddp,
                  overlap_grad_reduce |-> overlap_grad_reduce,
                  delay_grad_reduce |-> delay_grad_reduce,
                  overlap_param_gather |-> overlap_param_gather,
                  delay_param_gather |-> delay_param_gather]
    /\ result = NoResult

\* get_module_config, the whole call; model_index is left at its last value
CallGetModuleConfig ==
    /\ call.function = "get_module_config"
    /\ ~result.done
    /\ result' = [done |-> TRUE, raised |-> None,
                  config |-> get_module_config(call),
                  model_index |-> model_index_after_loop(call.modules),
                  finish_param_sync |-> <<>>]
    /\ UNCHANGED call
    /\ UNCHANGED NotCall

\* config.param_sync_func[i](x), or config.param_sync_func(x) for one model
\* chunk: the lambda reads model_index when it runs and calls
\* self.optimizer.finish_param_sync
CallParamSync(i, x) ==
    /\ call.function = "get_module_config"
    /\ result.done
    /\ result.config.param_sync_func # PyNone
    /\ i \in 0..(call.modules - 1)
    /\ Len(result.finish_param_sync) < MaxSyncCalls
    /\ Callback(result.config.param_sync_func, i).class = "function"
    /\ result' = [result EXCEPT !.finish_param_sync =
                     Append(@, [callback |-> i, model_index |-> result.model_index,
                                x |-> x])]
    /\ UNCHANGED call
    /\ UNCHANGED NotCall

(***************************************************************************)
(* The specifications, one per component.                                  *)
(***************************************************************************)
InitModelProvider == ProviderInit /\ MaskIdle /\ DataIdle /\ GenIdle /\ EngIdle /\ CallIdle /\ WrapIdle
NextModelProvider == CallModelProvider
SpecModelProvider == InitModelProvider /\ [][NextModelProvider]_vars

InitMask == MaskInit /\ ProviderIdle /\ DataIdle /\ GenIdle /\ EngIdle /\ CallIdle /\ WrapIdle
NextMask == CallAttnMaskPostprocess
SpecMask == InitMask /\ [][NextMask]_vars

InitData == DataInit /\ ProviderIdle /\ MaskIdle /\ GenIdle /\ EngIdle /\ CallIdle /\ WrapIdle
NextData ==
    \/ SetMegatronDataArgs
    \/ PrepareGeneric
    \/ PrepareNativeBegin
    \/ PrepareNativeFinish
    \/ HandleIteratorReturns
    \/ HandleIteratorRaises
    \/ PrepareNativeBuilderRaises
    \/ \E w \in IteratorNames : NextOnDummy(w)
    \/ \E w \in IteratorNames : IterOnDummy(w)
    \/ \E w \in IteratorNames : NextOnNative(w)
SpecData == InitData /\ [][NextData]_vars

InitGenerate == GenInit /\ ProviderIdle /\ MaskIdle /\ DataIdle /\ EngIdle /\ CallIdle /\ WrapIdle
NextGenerate ==
    \/ \E r \in Ranks : GenBegin(r)
    \/ \E r \in Ranks : GenReceiveSizes(r)
    \/ \E r \in Ranks : GenReceiveTokens(r)
    \/ \E r \in Ranks : GenReceiveLengthsAndRun(r)
SpecGenerate == InitGenerate /\ [][NextGenerate]_vars

InitEngine == EngInit /\ ProviderIdle /\ MaskIdle /\ DataIdle /\ GenIdle /\ CallIdle /\ WrapIdle
NextEngine ==
    \/ \E op \in Ops : Issue(op)
    \/ \E r \in Ranks : Train(r)
    \/ \E r \in Ranks : TrainRaises(r)
    \/ \E r \in Ranks : Eval(r)
    \/ \E r \in Ranks : ForwardTrain(r)
    \/ \E r \in Ranks : ForwardTrainRaises(r)
    \/ \E r \in Ranks : ForwardEval(r)
    \/ \E r \in Ranks : WrapperNoOp(r)
    \/ \E r \in Ranks : SaveBegin(r)
    \/ \E r \in Ranks : SaveBeginRaises(r)
    \/ \E r \in Ranks : SaveEngineStart(r)
    \/ \E r \in Ranks : SaveEngineFinish(r)
    \/ \E r \in Ranks : SaveReturn(r)
    \/ \E r \in Ranks : LoadBegin(r)
    \/ \E r \in Ranks : LoadEngineStart(r)
    \/ \E r \in Ranks : LoadEngineFinish(r)
    \/ \E r \in Ranks : LoadReturn(r)
SpecEngine == InitEngine /\ [][NextEngine]_vars

InitEvalStep ==
    EvalStepInit /\ ProviderIdle /\ MaskIdle /\ DataIdle /\ GenIdle /\ EngIdle /\ WrapIdle
NextEvalStep == CallEvalStep
SpecEvalStep == InitEvalStep /\ [][NextEvalStep]_vars

InitWrappers ==
    WrapInit /\ ProviderIdle /\ MaskIdle /\ DataIdle /\ GenIdle /\ EngIdle /\ CallIdle
NextWrappers ==
    \/ \E a \in WrapperArguments : WrapperZeroGrad(a)
    \/ WrapperStep
    \/ \E a \in WrapperArguments : SchedulerWrapperStep(a)
    \/ \E s \in {0, 1} : TrainStepSetsFlag(s)
SpecWrappers == InitWrappers /\ [][NextWrappers]_vars

InitGetBatch ==
    GetBatchInit /\ ProviderIdle /\ MaskIdle /\ DataIdle /\ GenIdle /\ EngIdle /\ WrapIdle
NextGetBatch == CallGetBatchFunc
SpecGetBatch == InitGetBatch /\ [][NextGetBatch]_vars

InitGPTBatch ==
    GPTBatchInit /\ ProviderIdle /\ MaskIdle /\ DataIdle /\ GenIdle /\ EngIdle /\ WrapIdle
NextGPTBatch == CallGPTGetBatch
SpecGPTBatch == InitGPTBatch /\ [][NextGPTBatch]_vars

InitGPTLoss ==
    GPTLossInit /\ ProviderIdle /\ MaskIdle /\ DataIdle /\ GenIdle /\ EngIdle /\ WrapIdle
NextGPTLoss == CallGPTLossFunc \/ ContextAllReduceReturns \/ DataAllReduceReturns
SpecGPTLoss == InitGPTLoss /\ [][NextGPTLoss]_vars

InitBatchIterator ==
    BatchIteratorInit /\ ProviderIdle /\ MaskIdle /\ DataIdle /\ GenIdle /\ EngIdle /\ WrapIdle
NextBatchIterator ==
    \/ CallGetBatchDataIterator
    \/ \E m \in 1..MaxModelChunks : NextChunk(m)
SpecBatchIterator == InitBatchIterator /\ [][NextBatchIterator]_vars

InitBertLoss ==
    BertLossInit /\ ProviderIdle /\ MaskIdle /\ DataIdle /\ GenIdle /\ EngIdle /\ WrapIdle
NextBertLoss == CallLossFuncFinetune
SpecBertLoss == InitBertLoss /\ [][NextBertLoss]_vars

InitModuleConfig ==
    ModuleConfigInit /\ ProviderIdle /\ MaskIdle /\ DataIdle /\ GenIdle /\ EngIdle /\ WrapIdle
NextModuleConfig ==
    \/ CallGetModuleConfig
    \/ \E i \in 0..(MaxModelChunks - 1), x \in {"params_a", "params_b"} : CallParamSync(i, x)
SpecModuleConfig == InitModuleConfig /\ [][NextModuleConfig]_vars

(***************************************************************************)
(* C1: model_provider_func returns a constructed model for every supported *)
(* model_type_name (bert: BertModel when pretraining_flag is set, otherwise*)
(* Classification; gpt: GPTModel; t5: T5Model) and raises ValueError,      *)
(* having constructed nothing, for any other model_type_name.              *)
(***************************************************************************)
C1_ModelProviderDispatch ==
    provider_pc = "done" =>
        LET expected ==
                CASE model_type_name = "bert" /\ pretraining_flag -> "BertModel"
                  [] model_type_name = "bert" /\ ~pretraining_flag -> "Classification"
                  [] model_type_name = "gpt" -> "GPTModel"
                  [] model_type_name = "t5" -> "T5Model"
                  [] OTHER -> None
        IN  IF expected # None
            THEN /\ provider_result.raised = None
                 /\ provider_result.value # NoModel
                 /\ provider_result.value.class = expected
                 /\ constructed = <<expected>>
            ELSE /\ provider_result.raised = "ValueError"
                 /\ provider_result.value = NoModel
                 /\ constructed = <<>>

\* an unsupported tag was passed and the call has ended
C1_Witness ==
    /\ provider_pc = "done"
    /\ model_type_name = "llama"
    /\ provider_result.raised = "ValueError"

(***************************************************************************)
(* C2 as stated: entry [b,i,j] of the returned mask is true exactly when   *)
(* attention_mask[b,i] and attention_mask[b,j] are both 1.                 *)
(***************************************************************************)
C2_Original_TrueWhenBothOne ==
    mask_pc = "done" =>
        /\ Shape3(extended_attention_mask) =
             <<Shape2(attention_mask)[1], Shape2(attention_mask)[2], Shape2(attention_mask)[2]>>
        /\ \A b \in DOMAIN attention_mask : \A i, j \in DOMAIN attention_mask[b] :
             extended_attention_mask[b][i][j] =
                (attention_mask[b][i] = 1 /\ attention_mask[b][j] = 1)

(***************************************************************************)
(* C2 amended: for every 0/1 attention_mask of shape [B,S] the returned    *)
(* mask has shape [B,S,S] and entry [b,i,j] is true exactly when the       *)
(* product of the row and column broadcasts is below 0.5, that is when     *)
(* attention_mask[b,i] and attention_mask[b,j] are NOT both 1 (true marks  *)
(* a masked-out pair).                                                     *)
(***************************************************************************)
C2_MaskIsComplementOfAnd ==
    mask_pc = "done" =>
        /\ Shape3(extended_attention_mask) =
             <<Shape2(attention_mask)[1], Shape2(attention_mask)[2], Shape2(attention_mask)[2]>>
        /\ \A b \in DOMAIN attention_mask : \A i, j \in DOMAIN attention_mask[b] :
             extended_attention_mask[b][i][j] =
                ~(attention_mask[b][i] = 1 /\ attention_mask[b][j] = 1)

\* a mask with both a padded and a real position has been post-processed
C2_Witness ==
    /\ mask_pc = "done"
    /\ \E b \in DOMAIN attention_mask : \E i, j \in DOMAIN attention_mask[b] :
          /\ attention_mask[b][i] = 1 /\ attention_mask[b][j] = 0
          /\ extended_attention_mask[b][i][i] = FALSE
          /\ extended_attention_mask[b][i][j] = TRUE

(***************************************************************************)
(* C3: in generic mode (megatron_dataset_flag false) prepare_data_loader   *)
(* rebuilds the DataLoader so that its effective batch size equals         *)
(* args.micro_batch_size * args.num_micro_batches in each of the three     *)
(* input shapes (batch_size set; batch_size None with a BatchSampler as    *)
(* sampler; batch_size None with a batch_sampler), the rebuilt loader is   *)
(* passed on for sharding across the data-parallel ranks with              *)
(* split_batches=False, and args.micro_batch_size is not changed.          *)
(***************************************************************************)
C3_GenericBatchSize ==
    (~megatron_dataset_flag /\ data_pc \in {"done", "raised"}) =>
        /\ micro_batch_size = configured_micro_batch_size
        /\ data_pc = "raised" => dataloader \in {LoaderUnbatched} \cup DummyLoaders
        /\ data_pc = "done" =>
              /\ EffectiveBatchSize(new_dataloader) =
                    configured_micro_batch_size * num_micro_batches
              /\ inner_call.called
              /\ inner_call.dataloader = new_dataloader
              /\ inner_call.split_batches = FALSE
              /\ inner_call.num_processes = data_parallel.world_size
              /\ inner_call.process_index = data_parallel.rank

\* a loader given a batch_sampler of size 1 was rebuilt for 2 x 3 samples
C3_Witness ==
    /\ ~megatron_dataset_flag /\ data_pc = "done"
    /\ configured_micro_batch_size = 2 /\ num_micro_batches = 3
    /\ new_dataloader.batch_size = PyNone
    /\ new_dataloader.batch_sampler = BatchSampler(6)
    /\ inner_call.called

(***************************************************************************)
(* C4: the null-iterator stand-in never ends: every next() call on it      *)
(* returns an empty mapping and none raises StopIteration, however many    *)
(* calls came before, and iter() on it returns the same object.            *)
(***************************************************************************)
C4_DummyNeverEnds ==
    \A w \in IteratorNames :
        (iterators[w].kind = "dummy" /\ last_call.on = w) =>
            /\ last_call.op = "next" =>
                  /\ last_call.raised = None
                  /\ last_call.value = EmptyMapping
            /\ last_call.op = "iter" =>
                  /\ last_call.raised = None
                  /\ last_call.object = iterators[w].id

\* the stand-in has answered MaxNextCalls consecutive next() calls
C4_Witness ==
    \E w \in IteratorNames :
        /\ iterators[w].kind = "dummy"
        /\ iterators[w].nexts = MaxNextCalls
        /\ last_call.on = w /\ last_call.op = "next"
        /\ last_call.raised = None /\ last_call.value = EmptyMapping

\* the call passes the configuration preconditions of lines 1247-1264
PassesConfig ==
    /\ gen_config.model_type_name = "gpt"
    /\ gen_config.data_parallel_size <= 1
    /\ ~gen_config.sequence_parallel
    /\ gen_config.recompute_granularity = None
    /\ gen_config.vocab_file # None
    /\ ~(gen_call.max_length = PyNone /\ gen_call.max_new_tokens = PyNone)

\* rank r has run the checks of megatron_generate
Validated(r) == gen_pc[r] \notin {"idle", "start"}

TemperatureAccepted ==
    \/ gen_call.temperature = PyNone
    \/ 0 < InTenths(gen_call.temperature) /\ InTenths(gen_call.temperature) <= 1000
TopKAccepted ==
    \/ gen_call.top_k = PyNone
    \/ 0 <= gen_call.top_k.v /\ gen_call.top_k.v <= 1000

(***************************************************************************)
(* C5: on a call that passes the configuration preconditions,              *)
(* megatron_generate range-checks the sampling scalars: temperature None   *)
(* becomes 1.0, otherwise it is accepted exactly when 0 < temperature <=   *)
(* 100 and a ValueError is raised otherwise; top_k None becomes 0,         *)
(* otherwise it is accepted exactly when 0 <= top_k <= 1000 and a          *)
(* ValueError is raised otherwise.                                         *)
(***************************************************************************)
C5_TemperatureTopKRange ==
    \A r \in Ranks : (Validated(r) /\ PassesConfig) =>
        LET o == gen_outcome[r]
        IN  /\ ~TemperatureAccepted =>
                  o.kind = "raise" /\ o.error = "ValueError" /\ o.msg = MsgTemperature
            /\ TemperatureAccepted => o.msg # MsgTemperature
            /\ ~TopKAccepted => o.kind = "raise" /\ o.error = "ValueError"
            /\ (TemperatureAccepted /\ ~TopKAccepted) => o.msg = MsgTopK
            /\ TopKAccepted => o.msg # MsgTopK
            /\ o.kind = "ok" =>
                  /\ o.locals.temperature =
                        (IF gen_call.temperature = PyNone THEN PyFloat(10)
                         ELSE gen_call.temperature)
                  /\ o.locals.top_k =
                        (IF gen_call.top_k = PyNone THEN PyInt(0) ELSE gen_call.top_k)

\* temperature=50 passed its check and top_k=1500 was then rejected
C5_Witness ==
    \E r \in Ranks :
        /\ Validated(r) /\ PassesConfig
        /\ gen_call.temperature = PyInt(50)
        /\ gen_call.top_k = PyInt(1500)
        /\ gen_outcome[r].kind = "raise" /\ gen_outcome[r].msg = MsgTopK

OutsideUnit(x) == x \notin {PyNone, Absent} /\ (InTenths(x) < 0 \/ InTenths(x) > 10)

(***************************************************************************)
(* C6: on a call that passes the configuration preconditions,              *)
(* megatron_generate raises ValueError whenever top_p > 0 and top_k > 0    *)
(* are supplied together and whenever a supplied top_p, top_p_decay or     *)
(* top_p_bound lies outside [0,1]; a call with top_p in [0,1] and top_k    *)
(* equal to 0 or None is not rejected by the top_p checks.                 *)
(***************************************************************************)
C6_TopPChecks ==
    \A r \in Ranks : (Validated(r) /\ PassesConfig) =>
        LET o == gen_outcome[r]
            p == gen_call.top_p
            k == gen_call.top_k
            together == p # PyNone /\ k # PyNone /\ InTenths(p) > 0 /\ k.v > 0
        IN  /\ together => o.kind = "raise" /\ o.error = "ValueError"
            /\ (together /\ TemperatureAccepted /\ TopKAccepted) => o.msg = MsgTopPAndTopK
            /\ (OutsideUnit(p) \/ OutsideUnit(gen_call.top_p_decay)
                   \/ OutsideUnit(gen_call.top_p_bound)) =>
                  o.kind = "raise" /\ o.error = "ValueError"
            /\ (p # PyNone /\ ~OutsideUnit(p) /\ (k = PyNone \/ k.v = 0)) =>
                  /\ o.msg \notin {MsgTopPAndTopK, MsgTopP}
                  /\ (~OutsideUnit(gen_call.top_p_decay)
                        /\ ~OutsideUnit(gen_call.top_p_bound)) =>
                        o.msg \notin {MsgTopPDecay, MsgTopPBound}

\* top_p=0.9 with top_k=10 was rejected as set together
C6_Witness ==
    \E r \in Ranks :
        /\ Validated(r) /\ PassesConfig
        /\ gen_call.top_p = PyFloat(9) /\ gen_call.top_k = PyInt(10)
        /\ gen_outcome[r].kind = "raise" /\ gen_outcome[r].msg = MsgTopPAndTopK

(***************************************************************************)
(* C7 as stated: whenever num_beams is a positive integer and inputs has   *)
(* more than one row, megatron_generate raises and performs no broadcast   *)
(* and no generation.                                                      *)
(***************************************************************************)
C7_BeamBatchRaises ==
    \A r \in Ranks :
        (Validated(r) /\ gen_call.num_beams.class = "int" /\ gen_call.num_beams.v >= 1
           /\ gen_call.batch > 1) =>
            /\ gen_outcome[r].kind = "raise"
            /\ broadcasts[r] = 0
            /\ generation[r] = NoGeneration

\* ---- checkpoints and the skipped-step flag ----

\* C8: when load_checkpoint returns on a rank for a directory the rank saved
\* to before, the wrapper's iteration and FLOP count are the ones it had at
\* its latest save_checkpoint to that directory, whatever forward calls were
\* made in between.
C8_CheckpointRoundTrip ==
    [][\A r \in Ranks :
          (/\ eng_pc[r] = "load_barrier2" /\ eng_pc'[r] = "idle"
           /\ history[r].saved[rank_args[r].load].present)
          => LET at_save == history[r].saved[rank_args[r].load]
             IN  /\ engine'[r].iteration = at_save.iteration
                 /\ engine'[r].num_floating_point_operations_so_far
                       = at_save.num_floating_point_operations_so_far]_vars

\* a rank trained past a save and a later load took it back to the saved counters
C8_Witness ==
    \E r \in Ranks :
       /\ eng_pc[r] = "idle" /\ pending[r] = <<>>
       /\ rank_args[r].load # None
       /\ history[r].saved[rank_args[r].load].present
       /\ engine[r].iteration >= 1
       /\ history[r].peak_iteration > engine[r].iteration
       /\ engine[r].iteration = history[r].saved[rank_args[r].load].iteration
       /\ engine[r].num_floating_point_operations_so_far
             = history[r].saved[rank_args[r].load].num_floating_point_operations_so_far
       /\ rank_args[r].consumed_train_samples = 0

\* C9: step_was_skipped is False until the first training step and afterwards
\* tells whether the latest training step returned skipped_iter = 1; eval
\* steps, mode switches, zero_grad, step and checkpoint calls leave it alone.
C9_StepWasSkipped ==
    \A r \in Ranks : step_was_skipped(r) = (history[r].last_skipped_iter = 1)

\* a skipped training step followed by a switch to eval mode and an eval step
C9_Witness ==
    \E r \in Ranks :
       /\ step_was_skipped(r)
       /\ ~engine[r].training
       /\ rank_args[r].consumed_valid_samples > 0
       /\ pending[r] = <<>>

\* the progress of rank r through its checkpoint calls, counted in calls
Reached(r) == history[r].checkpoint_calls
EngineStarted(r) ==
    history[r].checkpoint_calls
      - (IF eng_pc[r] \in {"save_barrier1", "load_barrier1"} THEN 1 ELSE 0)
EngineFinished(r) ==
    history[r].checkpoint_calls
      - (IF eng_pc[r] \in {"save_barrier1", "load_barrier1", "saving", "loading"}
         THEN 1 ELSE 0)
ReturnedFrom(r) ==
    history[r].checkpoint_calls
      - (IF eng_pc[r] \in {"idle", "unused", "raised"} THEN 0 ELSE 1)

\* rank r takes a save_checkpoint or a load_checkpoint call from its queue
CheckpointCall(r) ==
    /\ Next_(r, "save_checkpoint") \/ Next_(r, "load_checkpoint")
    /\ pending'[r] = Tail(pending[r])

\* C10 as stated: in every save_checkpoint or load_checkpoint call each
\* rank's sequence is barrier, engine save or load, barrier.  A rank that
\* takes the call goes to its first barrier; no rank starts the engine's
\* save or load before every rank has reached the first barrier, and no rank
\* returns (for a load: sets its iteration and FLOP count) before every rank
\* has finished the engine's save or load.
C10_CheckpointBarriers ==
    /\ [][\A r \in Ranks :
             CheckpointCall(r) => eng_pc'[r] \in {"save_barrier1", "load_barrier1"}]_vars
    /\ [](\A r, q \in Ranks :
             /\ EngineStarted(r) <= Reached(q)
             /\ ReturnedFrom(r) <= EngineFinished(q))

\* ---- megatron_generate: the broadcasts ----

\* C11 as stated: for every argument combination either every rank leaves
\* megatron_generate before the first broadcast or every rank takes part in
\* the broadcasts; no rank has joined a broadcast while another rank has
\* left the call before joining it.
C11_AllRanksOrNone ==
    \A r, q \in Ranks :
        ~(gen_pc[r] \in {"raised", "returned"} /\ broadcasts[r] = 0 /\ broadcasts[q] >= 1)

\* ---- the native data iterators ----

\* C12: each _handle_megatron_data_iterator call issues exactly one presence
\* broadcast whether or not the local iterator is None; it returns the
\* never-ending stand-in exactly when the local iterator is None and the
\* source rank's is not, and the local iterator unchanged in every other case.
C12_HandleIterator ==
    (megatron_dataset_flag /\ data_pc = "done") =>
        \A w \in IteratorNames :
            LET h == handled[w]
                stand_in == h.data_iterator.kind = "None" /\ ~h.src_empty
            IN  /\ h.broadcasts = 1
                /\ (h.returned.kind = "dummy") = stand_in
                /\ ~stand_in => h.returned = h.data_iterator
                /\ tp_src_rank => h.src_empty = (h.data_iterator.kind = "None")

\* one rank gets the stand-in for one iterator, keeps None for another (the
\* source rank has none either) and keeps its own iterator for the third
C12_Witness ==
    /\ megatron_dataset_flag /\ data_pc = "done"
    /\ \E w1, w2, w3 \in IteratorNames :
          /\ handled[w1].data_iterator.kind = "None" /\ handled[w1].returned.kind = "dummy"
          /\ handled[w2].data_iterator.kind = "None" /\ handled[w2].returned.kind = "None"
          /\ handled[w3].data_iterator.kind \notin {"None", "dummy"}
          /\ handled[w3].returned = handled[w3].data_iterator
          /\ \A w \in {w1, w2, w3} : handled[w].broadcasts = 1

\* C13: in native mode args.micro_batch_size is changed only for the time the
\* iterator builder runs: it is then the configured value times
\* num_micro_batches, and it is the configured value again when
\* prepare_data_loader has returned normally.
C13_NativeMicroBatchSizeTemporary ==
    megatron_dataset_flag =>
        /\ data_pc = "ready" => micro_batch_size = configured_micro_batch_size
        /\ data_pc = "building" =>
              micro_batch_size = configured_micro_batch_size * num_micro_batches
        /\ (data_pc \in {"handling", "done"} \/ data_raised = "RuntimeError") =>
              /\ builder_micro_batch_size = configured_micro_batch_size * num_micro_batches
              /\ micro_batch_size = configured_micro_batch_size

\* a native call with micro batch size 2 and 3 microbatches has returned: the
\* builder saw 6 and args.micro_batch_size is 2 again
C13_Witness ==
    /\ megatron_dataset_flag /\ data_pc = "done"
    /\ configured_micro_batch_size = MaxMicroBatchSize
    /\ num_micro_batches = MaxNumMicroBatches
    /\ builder_micro_batch_size = MaxMicroBatchSize * MaxNumMicroBatches
    /\ micro_batch_size = MaxMicroBatchSize

\* ---- the engine's modes ----

\* rank r runs a train() or eval() call in this step
ModeSwitch(r) ==
    /\ eng_pc[r] = "idle" /\ pending[r] # <<>>
    /\ Head(pending[r]).op \in {"train", "eval"}
    /\ pending'[r] = Tail(pending[r])

\* C14: get_module_config runs on a rank's first train() or eval() call and
\* never again: every mode switch leaves module_config set, the first one
\* builds it, every later one keeps the same object, and no other call
\* touches it.
C14_ModuleConfigBuiltOnce ==
    [][\A r \in Ranks :
          /\ ModeSwitch(r) =>
                /\ engine'[r].module_config # 0
                /\ IF engine[r].module_config = 0
                   THEN /\ history[r].config_builds = 0
                        /\ history'[r].config_builds = 1
                   ELSE /\ engine'[r].module_config = engine[r].module_config
                        /\ history'[r].config_builds = history[r].config_builds
          /\ ~ModeSwitch(r) =>
                /\ engine'[r].module_config = engine[r].module_config
                /\ history'[r].config_builds = history[r].config_builds]_vars

\* a rank has switched to eval mode and back to train mode, trained, and its
\* configuration is still the one object built at the first switch
C14_Witness ==
    \E r \in Ranks :
       /\ engine[r].module_config = 1 /\ history[r].config_builds = 1
       /\ engine[r].training
       /\ rank_args[r].consumed_valid_samples > 0
       /\ rank_args[r].consumed_train_samples > 0

\* rank r runs a forward call in this step
ForwardCall(r) ==
    /\ eng_pc[r] = "idle" /\ pending[r] # <<>>
    /\ Head(pending[r]).op = "forward"
    /\ pending'[r] = Tail(pending[r])

\* C15: forward routes on the training flag and counts training steps only:
\* a forward call in train mode runs one engine training step and adds 1 to
\* self.iteration; a forward call in eval mode runs no training step and
\* leaves self.iteration, num_floating_point_operations_so_far and
\* args.consumed_train_samples as they are; train() and eval() change none of
\* them.  So self.iteration is its value at construction or at the last load
\* plus the number of train-mode forward calls since.
C15_ForwardCountsTrainingSteps ==
    [][\A r \in Ranks :
          /\ (ForwardCall(r) /\ engine[r].training) =>
                /\ engine'[r].iteration = engine[r].iteration + 1
                /\ history'[r].train_steps = history[r].train_steps + 1
          /\ (ForwardCall(r) /\ ~engine[r].training) =>
                /\ engine'[r].iteration = engine[r].iteration
                /\ engine'[r].num_floating_point_operations_so_far
                      = engine[r].num_floating_point_operations_so_far
                /\ rank_args'[r].consumed_train_samples
                      = rank_args[r].consumed_train_samples
                /\ history'[r].train_steps = history[r].train_steps
          /\ ModeSwitch(r) =>
                /\ engine'[r].iteration = engine[r].iteration
                /\ history'[r].train_steps = history[r].train_steps]_vars

\* a rank that never loaded has made one forward call in train mode and then
\* one in eval mode: one training step, iteration 1
C15_Witness ==
    \E r \in Ranks :
       /\ rank_args[r].load = None
       /\ ~engine[r].training
       /\ rank_args[r].consumed_valid_samples > 0
       /\ rank_args[r].consumed_train_samples > 0
       /\ engine[r].iteration = 1 /\ history[r].train_steps = 1
       /\ issued.forwards = 2 /\ pending[r] = <<>>

\* ---- eval_step ----

\* C16: eval_step returns an empty mapping off the final pipeline stage; on
\* it, a mapping with the keys of the first microbatch's loss dictionary
\* where a scalar field is the sum over the microbatches divided by their
\* number and a tensor field is the per-microbatch tensors one after the
\* other.  On every rank it adds data_parallel_world_size * micro_batch_size
\* * num_microbatches to args.consumed_valid_samples.
C16_EvalStep ==
    (call.function = "eval_step" /\ result.done) =>
        LET n == call.num_microbatches
            out == result.returned
        IN  /\ result.raised = None
            /\ result.consumed_valid_samples =
                  call.consumed_valid_samples
                    + call.data_parallel_world_size * call.micro_batch_size * n
            /\ ~call.is_pipeline_last_stage => out = {}
            /\ call.is_pipeline_last_stage =>
                  /\ DictKeys(out) = DictKeys(call.loss_dicts[1])
                  /\ \A kv \in out :
                        LET first == DictGet(call.loss_dicts[1], kv[1], Scalar(0))
                            field(i) == DictGet(call.loss_dicts[i], kv[1], Scalar(0))
                        IN  IF first.dim = 0
                            THEN /\ kv[2].dim = 0
                                 /\ kv[2].den > 0
                                 /\ kv[2].num * n
                                      = kv[2].den * SumSeq([i \in 1..n |-> field(i).data[1]])
                            ELSE /\ kv[2].dim = 1
                                 /\ Len(kv[2].data) = 2 * n
                                 /\ \A i \in 1..n, j \in 1..2 :
                                       kv[2].data[2 * (i - 1) + j] = field(i).data[j]

\* a final-stage call over several microbatches has returned both fields: the
\* scalar losses do not average to a whole number and the tensors differ
C16_Witness ==
    /\ call.function = "eval_step" /\ result.done
    /\ call.is_pipeline_last_stage
    /\ call.num_microbatches = MaxMicroBatches
    /\ DictKeys(result.returned) = {"lm loss", "logits"}
    /\ DictGet(result.returned, "lm loss", Scalar(0)).num % MaxMicroBatches # 0
    /\ DictGet(call.loss_dicts[1], "logits", Scalar(0))
          # DictGet(call.loss_dicts[2], "logits", Scalar(0))
    /\ call.data_parallel_world_size * call.micro_batch_size > 1
    /\ result.consumed_valid_samples > call.consumed_valid_samples

\* C17: load_checkpoint has set args.consumed_train_samples and
\* args.consumed_valid_samples to 0 before the engine's load runs, and it
\* calls optimizer.reload_model_params exactly when args.fp16 is set and the
\* loaded iteration is 0; no other call of the engine calls it.
C17_LoadResetsAndReloads ==
    [][\A r \in Ranks :
          /\ eng_pc'[r] \in {"load_barrier1", "loading", "load_barrier2"} =>
                /\ rank_args'[r].consumed_train_samples = 0
                /\ rank_args'[r].consumed_valid_samples = 0
          /\ history'[r].reload_calls =
                history[r].reload_calls
                  + (IF /\ eng_pc[r] = "load_barrier2" /\ eng_pc'[r] = "idle"
                        /\ eng_config.fp16 /\ engine'[r].iteration = 0
                     THEN 1 ELSE 0)]_vars

\* under fp16 a rank that had trained loaded a checkpoint of iteration 0: its
\* sample counters are 0 and the parameters were reloaded once
C17_Witness ==
    \E r \in Ranks :
       /\ eng_config.fp16
       /\ eng_pc[r] = "idle" /\ rank_args[r].load # None
       /\ history[r].peak_iteration >= 1 /\ engine[r].iteration = 0
       /\ rank_args[r].consumed_train_samples = 0
       /\ history[r].reload_calls = 1

\* ---- the optimizer and scheduler wrappers ----

\* C18: zero_grad and step of the optimizer wrapper and step of the scheduler
\* wrapper do nothing: whatever the arguments and however many calls were
\* made, a call leaves the wrapped optimizer and scheduler, the skipped-step
\* flag included, as they were, and no call ever reaches the wrapped objects.
C18_WrappersAreNoOps ==
    [][(\/ wrapper_calls'.zero_grad # wrapper_calls.zero_grad
        \/ wrapper_calls'.step # wrapper_calls.step
        \/ wrapper_calls'.scheduler_step # wrapper_calls.scheduler_step)
       => /\ wrapped' = wrapped
          /\ wrapped'.optimizer.zero_grad_calls = 0
          /\ wrapped'.optimizer.step_calls = 0
          /\ wrapped'.scheduler.step_calls = 0]_vars

\* after a skipped training step every wrapper method has been called
\* MaxWrapperCalls times, the last one with an argument, and the flag is set
C18_Witness ==
    /\ wrapper_calls.zero_grad = MaxWrapperCalls
    /\ wrapper_calls.step = MaxWrapperCalls
    /\ wrapper_calls.scheduler_step = MaxWrapperCalls
    /\ wrapper_calls.last = "zero_grad" /\ wrapper_calls.argument # PyNone
    /\ wrapped.optimizer.skipped_iter

\* ---- get_batch_func ----

\* C19: in each of the three train-step classes get_batch_func picks the
\* decoder by a fixed precedence: a user-supplied custom_get_batch_function
\* wins whatever the native-dataset flag is; otherwise, with the flag set, the
\* optional pretrain module's get_batch if the module imports and the
\* built-in broadcast-based decoder if it is absent, no error surfacing;
\* otherwise the generic-batch decoder.
C19_GetBatchPrecedence ==
    (call.function = "get_batch_func" /\ result.done) =>
        /\ result.raised = None
        /\ call.custom_get_batch_function # None =>
              /\ result.returned.kind = "custom"
              /\ result.returned.name = call.custom_get_batch_function
        /\ (call.custom_get_batch_function = None /\ call.megatron_dataset_flag) =>
              IF call.import_outcome = "imported"
              THEN /\ result.returned.kind = "external"
                   /\ \/ call.class = "BertTrainStep" /\ result.returned.name = "pretrain_bert"
                      \/ call.class = "GPTTrainStep" /\ result.returned.name = "pretrain_gpt"
                      \/ call.class = "T5TrainStep" /\ result.returned.name = "pretrain_t5"
              ELSE /\ result.returned.kind = "builtin"
                   /\ result.returned.name = "get_batch_megatron"
                   /\ result.returned.class = call.class
        /\ (call.custom_get_batch_function = None /\ ~call.megatron_dataset_flag) =>
              /\ result.returned.kind = "builtin"
              /\ result.returned.name = "get_batch_transformer"
              /\ result.returned.class = call.class

\* with the native-dataset flag set and the pretrain module present, a user
\* function was supplied and is what the call returned
C19_Witness ==
    /\ call.function = "get_batch_func" /\ result.done
    /\ call.megatron_dataset_flag /\ call.import_outcome = "imported"
    /\ call.custom_get_batch_function # None
    /\ result.returned.kind = "custom"

\* ---- megatron_generate: the configuration preconditions ----

\* the error a call raised on rank r
RaisedWith(r, error, msg) ==
    /\ gen_outcome[r] = Raise(error, msg)
    /\ broadcasts[r] = 0
    /\ generation[r] = NoGeneration

\* C20: megatron_generate checks its configuration preconditions in a fixed
\* order and raises on the first one violated, before any broadcast or
\* generation call: model type other than gpt (NotImplementedError), then
\* data_parallel_size > 1, sequence_parallel, recompute_granularity set,
\* vocab_file missing, max_length and max_new_tokens both missing (each a
\* ValueError).  With only max_length given the new tokens asked for are
\* max_length minus the prompt length; with both given, max_new_tokens.
C20_ConfigPreconditionOrder ==
    \A r \in Ranks :
       gen_pc[r] \notin {"idle", "start"} =>
          LET cfg == gen_config
              c == gen_call
              asked == IF c.max_new_tokens # PyNone THEN c.max_new_tokens.v
                       ELSE c.max_length.v - c.length
          IN  IF cfg.model_type_name # "gpt"
              THEN RaisedWith(r, "NotImplementedError",
                              "Generate method is not implemented for this model")
              ELSE IF cfg.data_parallel_size > 1
              THEN RaisedWith(r, "ValueError",
                              "Generate method requires data parallelism to be 1")
              ELSE IF cfg.sequence_parallel
              THEN RaisedWith(r, "ValueError",
                              "Generate method requires sequence parallelism to be False")
              ELSE IF cfg.recompute_granularity # None
              THEN RaisedWith(r, "ValueError",
                              "Checkpoint activations cannot be set for inference")
              ELSE IF cfg.vocab_file = None
              THEN RaisedWith(r, "ValueError", "Vocab file is required for inference")
              ELSE IF c.max_length = PyNone /\ c.max_new_tokens = PyNone
              THEN RaisedWith(r, "ValueError",
                              "max_length or max_new_tokens are required for inference")
              ELSE /\ gen_outcome[r] = Raise("ValueError",
                                              "max_new_tokens must be greater than 0")
                        => (r = 0 /\ asked <= 0)
                   /\ (r = 0 /\ gen_outcome[r].kind = "ok") =>
                         /\ asked > 0
                         /\ prompts[r].sizes_list[2] =
                               4 * CeilQuarter(asked + c.length
                                                 + (IF gen_outcome[r].locals.add_BOS
                                                    THEN 1 ELSE 0))

\* a call with two preconditions violated has raised for the earlier one
C20_Witness ==
    \E r \in Ranks :
       /\ gen_pc[r] = "raised"
       /\ gen_config.model_type_name = "gpt" /\ gen_config.data_parallel_size = 1
       /\ gen_config.sequence_parallel /\ gen_config.vocab_file = None
       /\ gen_call.max_length = PyNone /\ gen_call.max_new_tokens = PyNone
       /\ gen_outcome[r].msg = "Generate method requires sequence parallelism to be False"

\* ---- megatron_generate: the prompt tensor ----

\* C21: on rank 0 the prompt tensor that is broadcast has a width W that is
\* the smallest multiple of 4 not below L + n (L + n + 1 with add_BOS), for
\* prompt length L and n new tokens asked for; each row is the prompt in its
\* order, after one inserted leading token with add_BOS, and the
\* end-of-document token everywhere else; the sizes list is [batch size, W].
C21_PromptTensorPadding ==
    (gen_pc[0] \notin {"idle", "start"} /\ gen_outcome[0].kind = "ok") =>
        LET c == gen_call
            L == c.length
            n == IF c.max_new_tokens # PyNone THEN c.max_new_tokens.v
                 ELSE c.max_length.v - L
            bos == IF gen_outcome[0].locals.add_BOS THEN 1 ELSE 0
            W == prompts[0].sizes_list[2]
            tokens == prompts[0].tokens
        IN  /\ n >= 1
            /\ prompts[0].sizes_list = <<c.batch, W>>
            /\ W % 4 = 0 /\ W >= L + n + bos /\ W - 4 < L + n + bos
            /\ W - (L + bos) >= n
            /\ Len(tokens) = c.batch
            /\ \A b \in 1..c.batch :
                  /\ Len(tokens[b]) = W
                  /\ \A i \in 1..W :
                        tokens[b][i] = IF bos < i /\ i <= bos + L
                                       THEN InputIds(c.batch, L)[b][i - bos]
                                       ELSE Eod

\* rank 0 has prepared several prompts of the longest length with add_BOS,
\* and the width had to be rounded up beyond what was asked for
C21_Witness ==
    /\ gen_pc[0] \notin {"idle", "start"} /\ gen_outcome[0].kind = "ok"
    /\ gen_outcome[0].locals.add_BOS
    /\ gen_call.batch = MaxPrompts /\ gen_call.length = MaxPromptLen
    /\ gen_call.max_new_tokens # PyNone
    /\ prompts[0].sizes_list[2] > gen_call.length + gen_call.max_new_tokens.v + 1

\* ---- GPTTrainStep.get_batch_func: tokens and labels ----

\* C22: the decoder-only batch decoders shift the labels by one position.
\* Generic path, input_ids of shape [B, L]: tokens equals input_ids,
\* labels[b, i] = input_ids[b, i + 1] for i < L - 1 and labels[b, L - 1] is
\* the end-of-document token.  Native path, text of shape [B, L]: tokens is
\* text[:, :L-1] and labels is text[:, 1:].  In both paths tokens and labels
\* have the same shape.
C22_LabelsShiftedByOne ==
    (call.function = "gpt_get_batch" /\ result.done) =>
        LET data == call.data
            B == Len(data)
            L == Len(data[1])
            tokens == result.tokens
            labels == result.labels
        IN  /\ result.raised = None
            /\ Len(tokens) = B /\ Len(labels) = B
            /\ \A b \in 1..B : Len(tokens[b]) = Len(labels[b])
            /\ IF call.megatron_dataset_flag
               THEN \A b \in 1..B :
                       /\ Len(tokens[b]) = (IF L = 0 THEN 0 ELSE L - 1)
                       /\ \A i \in 1..Len(tokens[b]) :
                             /\ tokens[b][i] = data[b][i]
                             /\ labels[b][i] = data[b][i + 1]
               ELSE /\ tokens = data
                    /\ \A b \in 1..B :
                          /\ Len(labels[b]) = L
                          /\ \A i \in 1..L :
                                labels[b][i] = IF i < L THEN data[b][i + 1]
                                               ELSE call.eod_token

\* both decoders have run on a batch of the largest shape whose rows differ
\* and hold tokens other than the end-of-document token
C22_Witness ==
    /\ call.function = "gpt_get_batch" /\ result.done
    /\ ~call.megatron_dataset_flag
    /\ Len(call.data) = MaxBatch /\ Len(call.data[1]) = MaxSeq
    /\ call.data[1] # call.data[MaxBatch]
    /\ call.data[1][1] # call.data[1][2]
    /\ result.labels[1][1] = call.data[1][2]
    /\ result.labels[1][MaxSeq] = Eod /\ call.data[1][MaxSeq] # Eod

\* ---- GPTTrainStep.get_loss_func: the NaN check and the loss returned ----

\* the collective named is among those the call has issued so far
Issued(group) == \E i \in 1..Len(result.collectives) : result.collectives[i] = group

\* C23: with check_for_nan_in_loss_and_grad set, a NaN local loss raises an
\* assertion failure before the data-parallel averaging collective is
\* issued, so the rank contributes no NaN to the average; with the option
\* off there is no check and the averaging always runs.  The loss returned
\* for backpropagation is the local loss, not the averaged one.
C23_NanCheckBeforeAveraging ==
    (call.function = "gpt_loss_func" /\ result # NoResult) =>
        LET loss == LocalLoss(call)
            check == call.check_for_nan_in_loss_and_grad
        IN  /\ Issued("data_parallel") =>
                  /\ result.contributed = loss
                  /\ check => loss # NaN
                  /\ result.collectives[Len(result.collectives)] = "data_parallel"
            /\ ~Issued("data_parallel") =>
                  /\ result.contributed = Absent
                  /\ result.done => (check /\ loss = NaN)
                  /\ ~result.done =>
                        /\ result.waiting = "context_parallel"
                        /\ call.context_parallel_size > 1
            /\ (result.done /\ check /\ loss = NaN) =>
                  /\ result.raised = "AssertionError"
                  /\ ~Issued("data_parallel")
                  /\ result.returned = Absent
            /\ (result.done /\ ~(check /\ loss = NaN)) =>
                  /\ result.raised = None
                  /\ Issued("data_parallel")
                  /\ result.returned.loss = loss
                  /\ DictGet(result.returned.output_dict, "lm loss", Absent)
                        = AveragedLoss(loss, call.data_peer)

\* a checked call raised on a NaN loss that came out of the context-parallel
\* all-reduce
C23_Witness ==
    /\ call.function = "gpt_loss_func" /\ result.done
    /\ call.check_for_nan_in_loss_and_grad
    /\ call.context_parallel_size > 1
    /\ MaskedSum(call.losses, call.loss_mask) # NaN
    /\ result.raised = "AssertionError"
    /\ result.collectives = <<"context_parallel">>

\* ---- MegatronEngine.log_eval_results: the reset of the eval totals ----

\* rank r runs log_eval_results in this step: it takes a train() or a
\* save_checkpoint call from its queue
LogsEvalResults(r) ==
    /\ Next_(r, "train") \/ Next_(r, "save_checkpoint")
    /\ pending'[r] = Tail(pending[r])

\* C24: whenever log_eval_results runs, on every train() call and at the
\* start of every save_checkpoint call, eval_total_loss_dict is empty
\* afterwards, so no eval loss accumulated before a switch back to train
\* mode is carried into the next evaluation round.
C24_TotalsResetAtLogTime ==
    [][\A r \in Ranks : LogsEvalResults(r) => engine'[r].eval_total_loss_dict = {}]_vars

\* ---- MegatronEngine.get_batch_data_iterator: the microbatch chunks ----

\* the rows of tensor v with 0-based index in [lo, hi)
RowsIn(v, lo, hi) ==
    LET js == {j \in 1..Len(v) : lo < j /\ j <= hi}
    IN  [j \in 1..Cardinality(js) |-> v[lo + j]]

RECURSIVE RowsOfChunks(_, _)
\* the rows of field k in a sequence of chunks, one chunk after the other
RowsOfChunks(chunks, k) ==
    IF chunks = <<>> THEN <<>>
    ELSE DictGet(Head(chunks), k, <<>>) \o RowsOfChunks(Tail(chunks), k)

\* C25: a non-empty batch is split into microbatch chunks.  With
\* num_micro_batches = n > 1 there are exactly n chunks, chunk i holding
\* rows [i * micro_batch_size, (i + 1) * micro_batch_size) of every field in
\* order, so the chunks are disjoint and together are the first
\* n * micro_batch_size rows; with n <= 1 the whole batch is the one chunk.
\* With more than one model chunk there is one independent iterator per
\* model chunk, each yielding all the chunks; for an empty batch the result
\* is None, or a list of None, one per model chunk.
C25_MicrobatchChunks ==
    (call.function = "get_batch_data_iterator" /\ result.done) =>
        LET batch_data == call.batch_data
            n == call.num_micro_batches
            mbs == call.micro_batch_size
            modules == call.modules
            chunks == result.data_chunks
            returned == result.returned
        IN  /\ result.raised = None
            /\ batch_data = {} =>
                  IF modules > 1
                  THEN /\ returned.class = "list" /\ Len(returned.items) = modules
                       /\ \A m \in 1..modules : returned.items[m] = PyNone
                  ELSE returned = PyNone
            /\ (batch_data # {} /\ n > 1) =>
                  /\ Len(chunks) = n
                  /\ \A i \in 0..(n - 1) :
                        /\ DictKeys(chunks[i + 1]) = DictKeys(batch_data)
                        /\ \A kv \in batch_data :
                              DictGet(chunks[i + 1], kv[1], <<>>)
                                 = RowsIn(kv[2], i * mbs, (i + 1) * mbs)
                  /\ \A kv \in batch_data :
                        RowsOfChunks(chunks, kv[1]) = RowsIn(kv[2], 0, n * mbs)
            /\ (batch_data # {} /\ n <= 1) => chunks = <<batch_data>>
            /\ batch_data # {} =>
                  /\ IF modules > 1
                     THEN /\ returned.class = "list" /\ Len(returned.items) = modules
                          /\ \A m \in 1..modules : returned.items[m].class = "list_iterator"
                          /\ \A m1, m2 \in 1..modules :
                                m1 # m2 => returned.items[m1].id # returned.items[m2].id
                     ELSE returned.class = "list_iterator"
                  /\ \A m \in 1..modules :
                        /\ Len(result.yielded[m]) <= Len(chunks)
                        /\ result.yielded[m] = SubSeq(chunks, 1, Len(result.yielded[m]))
                        /\ result.position[IteratorOf(returned, m).id]
                              = Len(result.yielded[m])

\* a batch with more rows than the chunks take was split for several model
\* chunks; one model chunk has drawn every chunk, another none yet
C25_Witness ==
    /\ call.function = "get_batch_data_iterator" /\ result.done
    /\ call.batch_data = BatchData(BatchFields, MaxRows)
    /\ call.num_micro_batches = 2 /\ call.micro_batch_size = MaxMicroBatchSize
    /\ call.modules = MaxModelChunks
    /\ Len(result.yielded[1]) = 0
    /\ result.yielded[MaxModelChunks] = result.data_chunks
    /\ DictGet(result.data_chunks[2], "labels", <<>>) = <<23, 24>>

\* ---- BertTrainStep: the fine-tuning loss function ----

\* C26: the encoder-only fine-tuning loss function completes without an
\* attribute or lookup error for every num_labels >= 1 and selects
\* mean-squared error when num_labels == 1, cross-entropy when
\* num_labels > 1 and the labels are integer typed, and binary
\* cross-entropy with logits otherwise; it returns the local loss and a
\* one-entry logging dictionary keyed 'loss'.
C26_FinetuneLossSelection ==
    (call.function = "loss_func_finetune" /\ result.done) =>
        /\ result.raised = None
        /\ result.loss # Absent
        /\ result.loss.loss_fct =
              (IF call.num_labels = 1 THEN "MSELoss"
               ELSE IF call.labels_dtype \in {"torch.long", "torch.int"}
               THEN "CrossEntropyLoss"
               ELSE "BCEWithLogitsLoss")
        /\ result.output_keys = {"loss"}

\* ---- MegatronEngine.get_module_config: the parameter-sync callbacks ----

\* C27: with overlap_param_gather and delay_param_gather both set and
\* k > 1 model chunks, get_module_config installs k parameter-sync callbacks
\* and the i-th callback calls the optimizer's finish_param_sync with model
\* index i, for every i in 0..k-1; with k == 1 a single callback (not a
\* list) bound to index 0 is installed.
C27_ParamSyncPerChunk ==
    (/\ call.function = "get_module_config" /\ result.done
     /\ call.overlap_param_gather /\ call.delay_param_gather) =>
        LET k == call.modules
            field == result.config.param_sync_func
            calls == result.finish_param_sync
        IN  /\ IF k > 1
               THEN /\ field.class = "list" /\ Len(field.items) = k
                    /\ \A i \in 1..k : field.items[i].class = "function"
               ELSE field.class = "function"
            /\ \A j \in 1..Len(calls) : calls[j].model_index = calls[j].callback

\* ---- prepare_data_loader: args.micro_batch_size on every exit ----

\* C28: prepare_data_loader in native mode leaves args.micro_batch_size at
\* its pre-call value on every exit path, the one where the native
\* iterator builder raises included.
C28_MicroBatchSizeRestoredOnEveryExit ==
    (megatron_dataset_flag /\ data_pc \in {"done", "raised"}) =>
        micro_batch_size = configured_micro_batch_size

\* ---- MegatronEngine.forward: the configuration of a training step ----

\* C29: every engine training step that forward triggers receives a built
\* (non-None) execution configuration, for any order of train(), eval() and
\* forward calls after construction, a forward call on a freshly constructed
\* engine whose model is in training mode included.
C29_TrainStepHasConfig ==
    [][\A r \in Ranks :
          (ForwardCall(r) /\ RoutesToTrainStep(engine[r])) =>
              engine[r].module_config # 0]_vars

\* ---- MegatronEngine: the eval totals and their counts ----

\* the loss keys of the eval totals: the keys that are not a count
LossKeysOf(totals) ==
    {k \in DictKeys(totals) : \A j \in UNION LossKeySets : k # NumItersKey(j)}

\* C30: with tensorboard logging on, for each loss key k in
\* eval_total_loss_dict the entry k + '_num_iters' is present and equals the
\* number of eval-mode forward calls, since the dictionary was last emptied,
\* whose loss dictionary contained k, so the logged value is a sum divided
\* by a count of at least 1; on ranks that are not the final pipeline stage,
\* and whenever tensorboard logging is off, the dictionary stays empty.
C30_EvalTotalsPaired ==
    \A r \in Ranks :
       LET totals == engine[r].eval_total_loss_dict
           calls == history[r].eval_forwards
       IN  /\ \A k \in LossKeysOf(totals) :
                 /\ NumItersKey(k) \in DictKeys(totals)
                 /\ DictGet(totals, NumItersKey(k), 0) = DictGet(calls, k, 0)
                 /\ DictGet(totals, NumItersKey(k), 0) >= 1
           /\ \A k \in DictKeys(totals) \ LossKeysOf(totals) :
                 \E j \in LossKeysOf(totals) : k = NumItersKey(j)
           /\ eng_config.tensorboard_dir # None =>
                 \A k \in DictKeys(calls) : k \in DictKeys(totals)
           /\ (eng_config.tensorboard_dir = None \/ ~eng_config.pipeline_last_stage[r]) =>
                 totals = {}

\* with tensorboard logging on, a rank on the final pipeline stage has added
\* the losses of two eval-mode forward calls to its totals, while a rank off
\* the final stage has made the same calls
C30_Witness ==
    \E r \in Ranks :
       /\ eng_config.tensorboard_dir # None /\ eng_config.pipeline_last_stage[r]
       /\ \E q \in Ranks : ~eng_config.pipeline_last_stage[q] /\ pending[q] = <<>>
       /\ DictGet(history[r].eval_forwards, "sop loss", 0) = 2
       /\ DictGet(engine[r].eval_total_loss_dict, "sop loss_num_iters", 0) = 2
       /\ DictGet(engine[r].eval_total_loss_dict, NumItersKey(LossKey), 0) = 2
       /\ DictGet(engine[r].eval_total_loss_dict, LossKey, 0) = 2 * MaxLoss

====
